---- MODULE Spec2Model ----
(***************************************************************************)
(* Model of ctrlpad's rendering core (src/ctrlpad/renderer.py):            *)
(*   - TextureAtlas: the skyline packer behind put()                       *)
(*   - Renderer: the quad batcher (begin_frame/end_frame/flush/            *)
(*     set_texture/box/outline_box/text_line/add_font)                     *)
(* SpecAtlas drives a stand-alone TextureAtlas with put() calls;           *)
(* SpecRender drives a Renderer (which owns a default TextureAtlas);       *)
(* SpecText queries fonts and wraps text; SpecFonts, SpecDraw and          *)
(* SpecSelect load and select fonts while drawing; SpecFit and SpecFitLive *)
(* run fit_text_in_box.                                                    *)
(***************************************************************************)
EXTENDS Integers, Sequences, FiniteSets, TLC

VARIABLES
    img,        \* TextureAtlas.img: [size |-> <<sx,sy>>, pixels |-> rectangles pasted, in order]
    front,      \* TextureAtlas.front: sequence of <<x, yStart>>
    tex_valid,  \* TextureAtlas.tex_valid
    maxsize,    \* TextureAtlas.maxsize
    initsize,   \* the initsize argument the atlas was constructed with
    uploads,    \* texture uploads issued by the atlas (TexImage2D / TexSubImage2D), in order
    placed,     \* rectangles returned by the successful put() calls, in order
    arg,        \* bitmap size <<w,h>> of the most recent put() call (<<0,0>> before the first)
    ret,        \* outcome of the most recent put(): a rectangle, "AtlasFullError", or "none"
    prev,       \* atlas state right before the most recent put() call
    data,       \* Renderer.data: [len |-> number of floats, quads |-> the quads they encode]
    tex,        \* Renderer.tex: the bound texture handle
    uTexSize,   \* value last given to the uTexSize uniform
    nquads,     \* Renderer.nquads
    nbatches,   \* Renderer.nbatches
    font,       \* Renderer.font
    default_font, \* Renderer.default_font
    fonts,      \* Renderer.fonts: name -> font
    frame,      \* position of the caller's draw loop: "none", "open" or "done"
    nops,       \* renderer calls made in the current frame
    draws,      \* draw calls (DrawElements) issued in the current frame, in order
    nissued,    \* quads appended in the current frame
    changes,    \* for each change of the bound texture in the current frame: nissued at that time
    call,       \* the renderer call made last: [op |-> method name, arg |-> its arguments,
                \* ret |-> what it returned ("None" for Python's None)]; for text_line
                \* also exc |-> the exception raised ("none" if it returned) and
                \* pen |-> the first and the last value of its local x
    t_text,     \* the text (sequence of code points) of a font or wrapping call
    t_font,     \* the font the call was made on
    t_width,    \* the width argument of wrap_text
    t_size,     \* the size argument of width / wrap_text
    t_call,     \* the call made: "none", "glyph", "width" or "wrap"
    t_ret,      \* what the call returned (wrap_text: the sequence of tuples yielded)
    t_exc,      \* the exception the call raised, "none" if it returned
    t_cuts,     \* wrap_text: for each tuple yielded, the slice of the text it was taken from
    f_call,     \* the arguments of the fit_text_in_box call, and the font selected
    f_pc,       \* position of fit_text_in_box: "idle", "loop", "done" or "raised"
    f_size,     \* the local size of fit_text_in_box
    f_tried,    \* the sizes the loop has tried and left behind
    f_ret       \* the list fit_text_in_box returned

atlasvars == <<img, front, tex_valid, maxsize, initsize, uploads, placed, arg, ret, prev>>

rendervars == <<data, tex, uTexSize, nquads, nbatches, font, default_font, fonts,
                frame, nops, draws, nissued, changes, call>>

textvars == <<t_text, t_font, t_width, t_size, t_call, t_ret, t_exc, t_cuts>>

fitvars == <<f_call, f_pc, f_size, f_tried, f_ret>>

vars == <<img, front, tex_valid, maxsize, initsize, uploads, placed, arg, ret, prev,
          data, tex, uTexSize, nquads, nbatches, font, default_font, fonts,
          frame, nops, draws, nissued, changes, call,
          t_text, t_font, t_width, t_size, t_call, t_ret, t_exc, t_cuts,
          f_call, f_pc, f_size, f_tried, f_ret>>

----------------------------------------------------------------------------
(* Bounds and input sets *)

\* number of successful put() calls explored per atlas
MaxPuts == 3

\* the value min_waste starts from in put()
WasteSentinel == 999999999

\* maxsize when neither the caller nor GL names one
DefaultMaxSize == 32768

\* TextureAtlas.__init__'s default initsize, per axis
DefaultInitSize == 512

\* (initsize, maxsize) pairs a TextureAtlas is constructed with
AtlasConfigs ==
    { [initsize |-> <<2, 2>>, maxsize |-> 4],
      [initsize |-> <<1, 1>>, maxsize |-> 4],
      [initsize |-> <<2, 2>>, maxsize |-> 3],
      [initsize |-> <<3, 3>>, maxsize |-> 6],
      [initsize |-> <<2, 2>>, maxsize |-> 2],
      [initsize |-> <<DefaultInitSize, DefaultInitSize>>, maxsize |-> DefaultMaxSize] }

\* bitmap sizes <<w,h>> handed to put()
Bitmaps ==
    ({1, 2, 3} \X {1, 2, 3}) \cup {<<5, 1>>, <<1, 5>>, <<DefaultMaxSize, DefaultMaxSize>>}

----------------------------------------------------------------------------
(* Helpers *)

Max2(a, b) == IF a >= b THEN a ELSE b
Min2(a, b) == IF a <= b THEN a ELSE b

SetMax(S) == CHOOSE m \in S : \A n \in S : n <= m

\* filter a sequence of front points, keeping order
RECURSIVE SelectPts(_, _, _)
SelectPts(f, lo, hi) ==
    \* the points p of f with lo <= p.yStart < hi
    IF f = <<>> THEN <<>>
    ELSE LET p == Head(f)
             rest == SelectPts(Tail(f), lo, hi)
         IN IF lo <= p[2] /\ p[2] < hi THEN <<p>> \o rest ELSE rest

\* Python tuple comparison a > b on pairs
TupleGreater(a, b) == a[1] > b[1] \/ (a[1] = b[1] /\ a[2] > b[2])

\* mutant of GrowTo: enlarge to the exact size needed instead of doubling
GrowTo_Exact(s, need) == IF need > s THEN need ELSE s

\* "while need > s: s *= 2"
RECURSIVE GrowTo(_, _)
GrowTo(s, need) == IF need > s THEN GrowTo(2 * s, need) ELSE s

----------------------------------------------------------------------------
(* TextureAtlas *)

\* TextureAtlas._fit: the (size, area) the image needs to hold bitmap bm at (x0,y0)
Fit(size, bm, x0, y0) ==
    LET sx == GrowTo(size[1], x0 + bm[1])
        sy == GrowTo(size[2], y0 + bm[2])
    IN  [size |-> <<sx, sy>>, area |-> sx * sy]

\* indices j >= i of front points with yStart < yend
Consider(f, i, yend) == {j \in i..Len(f) : f[j][2] < yend}

\* mutant of CandX: take the x of front point i alone, ignoring the shelves below it
CandX_OwnPointOnly(f, i, bm) == f[i][1]

\* x at which a bitmap of height bm[2] resting at front point i would be placed
CandX(f, i, bm) == SetMax({f[j][1] : j \in Consider(f, i, f[i][2] + bm[2])})

\* mutant of CandValid: accept a candidate when either edge is within maxsize
CandValid_EitherEdge(f, i, bm, msize) ==
    Min2(CandX(f, i, bm) + bm[1], f[i][2] + bm[2]) <= msize

\* the candidate at front point i is within maxsize
CandValid(f, i, bm, msize) ==
    Max2(CandX(f, i, bm) + bm[1], f[i][2] + bm[2]) <= msize

\* the "for j in consider" loop of put(): the waste added by front points j..Len(f)
\* for a bitmap bm placed at x, with yend the bottom of the bitmap
RECURSIVE ShelfWaste(_, _, _, _, _)
ShelfWaste(f, bm, x, yend, j) ==
    IF j > Len(f) THEN 0
    ELSE IF ~(f[j][2] < yend) THEN ShelfWaste(f, bm, x, yend, j + 1)
    ELSE LET xend    == x + bm[1]
             jx      == f[j][1]
             jystart == f[j][2]
             jyend   == IF j + 1 <= Len(f) THEN f[j + 1][2] ELSE yend
             jwaste  == (x - jx) * (Min2(jyend, yend) - jystart)
             ewaste  == IF (jyend - bm[2]) < yend /\ yend < jyend
                        THEN (xend - jx) * (jyend - yend) ELSE 0
         IN  jwaste + (ewaste \div 4) + ShelfWaste(f, bm, x, yend, j + 1)

\* the waste score put() computes for the candidate at front point i
CandWaste(f, size, i, bm) ==
    LET y == f[i][2]
        x == CandX(f, i, bm)
    IN  (Fit(size, bm, x, y).area - size[1] * size[2])
            + ShelfWaste(f, bm, x, y + bm[2], i)

\* the "for i in range(len(self.front))" loop of put(): best = <<x0, y0, min_waste>>
RECURSIVE Scan(_, _, _, _, _, _)
Scan(f, size, msize, bm, i, best) ==
    IF i > Len(f) THEN best
    ELSE IF ~CandValid(f, i, bm, msize) THEN Scan(f, size, msize, bm, i + 1, best)
    ELSE LET waste == CandWaste(f, size, i, bm)
         IN  IF waste < best[3]
             THEN Scan(f, size, msize, bm, i + 1, <<CandX(f, i, bm), f[i][2], waste>>)
             ELSE Scan(f, size, msize, bm, i + 1, best)

BestSpot(f, size, msize, bm) == Scan(f, size, msize, bm, 1, <<-1, -1, WasteSentinel>>)

\* mutant of NewFront: the point the bitmap rests on is kept next to the new one
NewFront_KeepCovered(f, x0, y0, x1, y1) ==
    SelectPts(f, 0, y0 + 1) \o << <<x1, y0>> >>
        \o (IF SelectPts(f, y0 + 1, DefaultMaxSize * 4) = <<>>
            THEN << <<0, y1>> >> ELSE SelectPts(f, y0 + 1, DefaultMaxSize * 4))

\* mutant of NewFront: the new point is put at the bitmap's left edge
NewFront_LeftEdge(f, x0, y0, x1, y1) ==
    SelectPts(f, 0, y0) \o << <<x0, y0>> >>
        \o (IF SelectPts(f, y1, DefaultMaxSize * 4) = <<>>
            THEN << <<0, y1>> >> ELSE SelectPts(f, y1, DefaultMaxSize * 4))

\* mutant of NewFront: no point is added at the lower end of the bitmap
NewFront_NoLowerPoint(f, x0, y0, x1, y1) ==
    SelectPts(f, 0, y0) \o << <<x1, y0>> >>
        \o (IF SelectPts(f, y1, DefaultMaxSize * 4) = <<>>
            THEN << <<0, y1>> >> ELSE SelectPts(f, y1, DefaultMaxSize * 4))

\* the front after placing a bitmap at (x0,y0)..(x1,y1)
NewFront(f, x0, y0, x1, y1) ==
    LET above == SelectPts(f, 0, y0)
        \* first point (from the second on) with yStart >= y1
        hits  == {i \in 2..Len(f) : f[i][2] >= y1}
        lower == IF hits = {} THEN <<>>
                 ELSE LET i == CHOOSE k \in hits : \A n \in hits : k <= n
                      IN  IF f[i][2] > y1 /\ f[i - 1][2] >= y0
                          THEN << <<f[i - 1][1], y1>> >> ELSE <<>>
        end   == SelectPts(f, y1, DefaultMaxSize * 4)
    IN  above \o << <<x1, y0>> >> \o lower
              \o (IF end = <<>> THEN << <<0, y1>> >> ELSE end)

\* mutant of StillValid: enlarging the image leaves tex_valid as it was
StillValid_KeptOnResize(valid, resized) == valid

\* tex_valid when the upload is decided: "self.tex_valid = False" if the image
\* was enlarged
StillValid(valid, resized) == IF resized THEN FALSE ELSE valid

\* mutant of Upload: the whole image is uploaded every time
Upload_AlwaysFull(valid, rect, size) ==
    [op |-> "TexImage2D", x |-> 0, y |-> 0, w |-> size[1], h |-> size[2]]

\* the GL upload put() issues for the bitmap pasted at rect into the image of
\* the given size: TexSubImage2D of the bitmap if tex_valid, else TexImage2D
\* of the whole image
Upload(valid, rect, size) ==
    IF valid
    THEN [op |-> "TexSubImage2D", x |-> rect[1], y |-> rect[2],
          w |-> rect[3] - rect[1], h |-> rect[4] - rect[2]]
    ELSE [op |-> "TexImage2D", x |-> 0, y |-> 0, w |-> size[1], h |-> size[2]]

\* TextureAtlas.put on atlas state a = [img, front, tex_valid, maxsize, uploads]
\* with a bitmap of size bm; ok = FALSE stands for raising AtlasFullError
PutResult(a, bm) ==
    LET best == BestSpot(a.front, a.img.size, a.maxsize, bm)
        x0 == best[1]
        y0 == best[2]
        x1 == x0 + bm[1]
        y1 == y0 + bm[2]
        newsize == Fit(a.img.size, bm, x0, y0).size
        resized == TupleGreater(newsize, a.img.size)
        valid   == StillValid(a.tex_valid, resized)
    IN  IF Min2(x0, y0) < 0
        THEN [ok |-> FALSE, rect |-> <<>>, img |-> a.img, front |-> a.front,
              tex_valid |-> a.tex_valid, uploads |-> a.uploads]
        ELSE [ok |-> TRUE, rect |-> <<x0, y0, x1, y1>>,
              img |-> [size |-> IF resized THEN newsize ELSE a.img.size,
                       pixels |-> Append(a.img.pixels, <<x0, y0, x1, y1>>)],
              front |-> NewFront(a.front, x0, y0, x1, y1),
              tex_valid |-> TRUE,
              uploads |-> Append(a.uploads,
                  Upload(valid, <<x0, y0, x1, y1>>,
                         IF resized THEN newsize ELSE a.img.size))]

Atlas == [img |-> img, front |-> front, tex_valid |-> tex_valid,
          maxsize |-> maxsize, uploads |-> uploads]

\* TextureAtlas.__init__(initsize, maxsize)
NewAtlas(isz, msz) ==
    /\ img = [size |-> isz, pixels |-> <<>>]
    /\ front = << <<0, 0>> >>
    /\ tex_valid = FALSE
    /\ maxsize = msz
    /\ initsize = isz
    /\ uploads = <<>>
    /\ placed = <<>>
    /\ arg = <<0, 0>>
    /\ ret = "none"
    /\ prev = [img |-> img, front |-> front, tex_valid |-> tex_valid,
               maxsize |-> maxsize, uploads |-> uploads]

\* a.put(bitmap of size bm)
Put(bm) ==
    /\ Len(placed) < MaxPuts
    /\ LET r == PutResult(Atlas, bm)
       IN  /\ img' = r.img
           /\ front' = r.front
           /\ tex_valid' = r.tex_valid
           /\ uploads' = r.uploads
           /\ placed' = IF r.ok THEN Append(placed, r.rect) ELSE placed
           /\ ret' = IF r.ok THEN r.rect ELSE "AtlasFullError"
    /\ arg' = bm
    /\ prev' = Atlas
    /\ UNCHANGED <<maxsize, initsize>>
    /\ UNCHANGED rendervars
    /\ UNCHANGED <<textvars, fitvars>>

----------------------------------------------------------------------------
(* Renderer: constants and inputs *)

vertex_attrib_count == 14
vertex_size == vertex_attrib_count * 4
batch_size == 65536 \div (vertex_size * 4)
vbo_items_per_quad == vertex_attrib_count * 4
max_vbo_items == batch_size * vbo_items_per_quad

\* renderer calls explored per frame
MaxOps == 3

\* length of the long line of text
LongLen == 291

\* fonts loaded into the renderer's atlas
MaxFonts == 2

\* the texture handle gl.make_texture() gives the atlas
AtlasTex == 1

\* a texture handle of the application's own
OtherTex == 2

\* GL_MAX_TEXTURE_SIZE as reported to TextureAtlas.__init__
GLMaxTextureSize == 1024

\* font metrics and pen positions are counted in units of 1/MetricScale
MetricScale == 2

NoBounds == [left |-> 0, bottom |-> 0, right |-> 0, top |-> 0]

\* the font assets (<file>.json and <file>.png) add_font() may be pointed at:
\* metrics, glyph list and kerning list as the JSON gives them, page = size of the PNG
FontAsset(file) ==
    CASE file = "bahn" ->
            [exists |-> TRUE, name |-> "bahn", page |-> <<512, 512>>,
             ascender |-> 4, descender |-> -1, lineHeight |-> 6,
             glyphs |-> << [unicode |-> 97, advance |-> 2, has_bounds |-> TRUE,
                            ab |-> [left |-> 0, bottom |-> 0, right |-> 8, top |-> 16],
                            pb |-> [left |-> 0, bottom |-> 0, right |-> 2, top |-> 3]],
                           [unicode |-> 32, advance |-> 1, has_bounds |-> FALSE,
                            ab |-> NoBounds, pb |-> NoBounds],
                           [unicode |-> 63, advance |-> 2, has_bounds |-> TRUE,
                            ab |-> [left |-> 8, bottom |-> 0, right |-> 16, top |-> 16],
                            pb |-> [left |-> 0, bottom |-> -1, right |-> 2, top |-> 3]] >>,
             kerning |-> << [unicode1 |-> 97, unicode2 |-> 63, advance |-> -1] >>]
      [] file = "wide" ->
            [exists |-> TRUE, name |-> "wide", page |-> <<2048, 64>>,
             ascender |-> 4, descender |-> -1, lineHeight |-> 6,
             glyphs |-> << [unicode |-> 97, advance |-> 2, has_bounds |-> TRUE,
                            ab |-> [left |-> 0, bottom |-> 0, right |-> 8, top |-> 16],
                            pb |-> [left |-> 0, bottom |-> 0, right |-> 2, top |-> 3]] >>,
             kerning |-> <<>>]
      [] file = "repl" ->
            [exists |-> TRUE, name |-> "repl", page |-> <<64, 64>>,
             ascender |-> 4, descender |-> -1, lineHeight |-> 6,
             glyphs |-> << [unicode |-> 32, advance |-> 1, has_bounds |-> FALSE,
                            ab |-> NoBounds, pb |-> NoBounds],
                           [unicode |-> 63, advance |-> 2, has_bounds |-> TRUE,
                            ab |-> [left |-> 8, bottom |-> 0, right |-> 16, top |-> 16],
                            pb |-> [left |-> 0, bottom |-> -1, right |-> 2, top |-> 3]],
                           [unicode |-> 65533, advance |-> 3, has_bounds |-> TRUE,
                            ab |-> [left |-> 16, bottom |-> 0, right |-> 24, top |-> 16],
                            pb |-> [left |-> 0, bottom |-> 0, right |-> 3, top |-> 3]] >>,
             kerning |-> <<>>]
      [] file = "mono" ->
            [exists |-> TRUE, name |-> "mono", page |-> <<64, 64>>,
             ascender |-> 4, descender |-> -1, lineHeight |-> 6,
             glyphs |-> << [unicode |-> 32, advance |-> 2, has_bounds |-> FALSE,
                            ab |-> NoBounds, pb |-> NoBounds],
                           [unicode |-> 97, advance |-> 2, has_bounds |-> TRUE,
                            ab |-> [left |-> 0, bottom |-> 0, right |-> 8, top |-> 16],
                            pb |-> [left |-> 0, bottom |-> 0, right |-> 2, top |-> 3]] >>,
             kerning |-> <<>>]
      [] file = "bold" ->
            [exists |-> TRUE, name |-> "bahn", page |-> <<64, 64>>,
             ascender |-> 4, descender |-> -1, lineHeight |-> 6,
             glyphs |-> << [unicode |-> 97, advance |-> 3, has_bounds |-> TRUE,
                            ab |-> [left |-> 0, bottom |-> 0, right |-> 8, top |-> 16],
                            pb |-> [left |-> 0, bottom |-> 0, right |-> 3, top |-> 3]] >>,
             kerning |-> <<>>]
      [] file = "anon" ->
            [exists |-> TRUE, name |-> "", page |-> <<64, 64>>,
             ascender |-> 4, descender |-> -1, lineHeight |-> 6,
             glyphs |-> << [unicode |-> 97, advance |-> 2, has_bounds |-> TRUE,
                            ab |-> [left |-> 0, bottom |-> 0, right |-> 8, top |-> 16],
                            pb |-> [left |-> 0, bottom |-> 0, right |-> 2, top |-> 3]] >>,
             kerning |-> <<>>]
      [] file = "broken" ->
            [exists |-> TRUE, name |-> "broken", page |-> <<64, 64>>,
             ascender |-> 4, descender |-> -1, lineHeight |-> 6,
             glyphs |-> <<>>, kerning |-> <<>>]
      [] OTHER ->
            [exists |-> FALSE, name |-> "", page |-> <<0, 0>>,
             ascender |-> 0, descender |-> 0, lineHeight |-> 0,
             glyphs |-> <<>>, kerning |-> <<>>]

\* a font whose JSON makes MSDFFont.__init__ raise after its page was put
\* into the atlas (a glyph whose planeBounds lacks 'left': KeyError)
Malformed(file) == file = "broken"

\* font files handed to add_font()
FontFiles == {"bahn", "missing"}

Repeat(x, n) == [i \in 1..n |-> x]

\* texts (sequences of code points) handed to text_line()
Texts == { <<>>, <<97, 32, 122>>, Repeat(97, LongLen) }

\* colours as callers give them: a hex string, a tuple/list, or None
ColStr(s) == [kind |-> "str", s |-> s, t |-> <<>>]
ColTuple(t) == [kind |-> "tuple", s |-> "", t |-> t]
ColNone == [kind |-> "none", s |-> "", t |-> <<>>]

\* text_line() calls
TextLineCalls ==
    { [x |-> 0, y |-> 0, size |-> 1, text |-> t, colorU |-> ColStr("fff"),
       colorL |-> ColNone, align |-> 0] : t \in Texts }

\* box() calls
BoxCalls ==
    { [x0 |-> 0, y0 |-> 0, x1 |-> 100, y1 |-> 100, colorU |-> ColStr("f30"),
       colorL |-> ColNone, radius |-> 200],
      [x0 |-> 10, y0 |-> 10, x1 |-> 30, y1 |-> 20, colorU |-> ColTuple(<<255, 255, 255>>),
       colorL |-> ColStr("oops"), radius |-> 0],
      [x0 |-> 10, y0 |-> 10, x1 |-> 10, y1 |-> 4, colorU |-> ColStr("fff"),
       colorL |-> ColNone, radius |-> 2] }

\* outline_box() calls
OutlineBoxCalls ==
    { [x0 |-> 0, y0 |-> 0, x1 |-> 40, y1 |-> 20, width |-> 2, colorO |-> ColStr("fff"),
       colorU |-> ColStr("f30"), colorL |-> ColNone, radius |-> 6,
       shadow_offset |-> sh[1], shadow_alpha |-> sh[2], shadow_grow |-> sh[3]] :
          sh \in {<<0, 255, 0>>, <<3, 255, 0>>, <<3, 0, 0>>, <<0, 255, 2>>} }

\* set_texture() calls made directly: a plain handle with its size, or the atlas
SetTextureCalls == { [atlas |-> FALSE, tex |-> OtherTex, w |-> 64, h |-> 64],
                     [atlas |-> FALSE, tex |-> OtherTex, w |-> 32, h |-> 16],
                     [atlas |-> TRUE, tex |-> 0, w |-> 1, h |-> 1] }

----------------------------------------------------------------------------
(* color.parse *)

\* the value of a hex colour string, channels in 1/255
HexColor(s) ==
    CASE s = "fff" -> <<255, 255, 255, 255>>
      [] s = "f30" -> <<255, 51, 0, 255>>
      [] OTHER     -> <<>>

\* mutant of ColorParse: a 3-tuple is passed through without its alpha
ColorParse_NoAlpha(c) ==
    IF c.kind = "tuple" /\ Len(c.t) \in {3, 4} THEN c.t
    ELSE IF c.kind = "str" /\ HexColor(c.s) # <<>> THEN HexColor(c.s)
    ELSE <<255, 0, 255, 255>>

\* color.parse(c): always an RGBA 4-tuple
ColorParse(c) ==
    IF c.kind = "tuple" /\ Len(c.t) = 4 THEN c.t
    ELSE IF c.kind = "tuple" /\ Len(c.t) = 3 THEN c.t \o <<255>>
    ELSE IF c.kind = "str" /\ HexColor(c.s) # <<>> THEN HexColor(c.s)
    ELSE <<255, 0, 255, 255>>

----------------------------------------------------------------------------
(* MSDFFont / NullFont *)

\* MSDFFont._nullglyph: advance 0.5, no image
NullGlyph == [adv |-> 1, valid |-> FALSE, p |-> <<0, 0, 0, 0>>, t |-> <<0, 0, 0, 0>>]

\* bool(font): NullFont is falsy, MSDFFont truthy
Truthy(fnt) == fnt.file # "null"

\* class NullFont defines no width method: font.width(...) on it raises
\* AttributeError
HasWidth(fnt) == Truthy(fnt)

\* one entry of MSDFFont.glyphs, built from a glyph of the JSON
GlyphEntry(asset, rect, g) ==
    IF g.has_bounds
    THEN [adv |-> g.advance * MetricScale, valid |-> TRUE,
          p |-> <<g.pb.left * MetricScale, (asset.ascender - g.pb.top) * MetricScale,
                  g.pb.right * MetricScale, (asset.ascender - g.pb.bottom) * MetricScale>>,
          t |-> <<rect[1] + g.ab.left, rect[4] - g.ab.top,
                  rect[1] + g.ab.right, rect[4] - g.ab.bottom>>]
    ELSE [adv |-> g.advance * MetricScale, valid |-> FALSE,
          p |-> <<0, 0, 0, 0>>, t |-> <<0, 0, 0, 0>>]

\* code points the glyph list of fnt's JSON has an entry for
GlyphCps(fnt) ==
    IF ~Truthy(fnt) THEN {}
    ELSE LET gs == FontAsset(fnt.file).glyphs IN {gs[i].unicode : i \in 1..Len(gs)}

\* the entry self.glyphs[cp] ends up with (the last glyph of the list with
\* that code point wins)
GlyphOf(fnt, cp) ==
    LET asset == FontAsset(fnt.file)
        gs == asset.glyphs
        i  == SetMax({k \in 1..Len(gs) : gs[k].unicode = cp})
    IN  GlyphEntry(asset, fnt.rect, gs[i])

\* mutant of Fallback: space is tried first, U+FFFD last
Fallback_SpaceFirst(fnt) ==
    IF 32 \in GlyphCps(fnt) THEN GlyphOf(fnt, 32)
    ELSE IF 63 \in GlyphCps(fnt) THEN GlyphOf(fnt, 63)
    ELSE IF 65533 \in GlyphCps(fnt) THEN GlyphOf(fnt, 65533)
    ELSE NullGlyph

\* self.fallback as MSDFFont.__init__ chooses it
Fallback(fnt) ==
    IF 65533 \in GlyphCps(fnt) THEN GlyphOf(fnt, 65533)
    ELSE IF 63 \in GlyphCps(fnt) THEN GlyphOf(fnt, 63)
    ELSE IF 32 \in GlyphCps(fnt) THEN GlyphOf(fnt, 32)
    ELSE NullGlyph

\* the pairs the kerning list of fnt's JSON has an entry for
KernPairs(fnt) ==
    LET ks == FontAsset(fnt.file).kerning
    IN  {<<ks[k].unicode1, ks[k].unicode2>> : k \in 1..Len(ks)}

\* the entry self.kern[pair] ends up with (the last of the list wins)
KernOf(fnt, pair) ==
    LET ks == FontAsset(fnt.file).kerning
        hit == {k \in 1..Len(ks) : ks[k].unicode1 = pair[1] /\ ks[k].unicode2 = pair[2]}
    IN  ks[SetMax(hit)].advance * MetricScale

\* NullFont(atlas): no glyphs, no kerning, the null glyph as fallback
NullFont ==
    [file |-> "null", name |-> "", rect |-> <<0, 0, 0, 0>>,
     glyphs |-> <<>>, fallback |-> NullGlyph, kern |-> <<>>]

\* the font object MSDFFont(file, atlas) whose page put() placed at rect:
\* its glyphs and kern dictionaries and its fallback
MSDFFont(file, rect) ==
    LET base == [file |-> file, rect |-> rect]
    IN  [file |-> file, name |-> FontAsset(file).name, rect |-> rect,
         glyphs |-> [cp \in GlyphCps(base) |-> GlyphOf(base, cp)],
         fallback |-> Fallback(base),
         kern |-> [pr \in KernPairs(base) |-> KernOf(base, pr)]]

\* font.glyphs.get(cp, font.fallback)
GlyphGet(fnt, cp) == IF cp \in DOMAIN fnt.glyphs THEN fnt.glyphs[cp] ELSE fnt.fallback

\* font.kern.get((prev, cp), 0.0)
KernGet(fnt, prevcp, cp) ==
    IF <<prevcp, cp>> \in DOMAIN fnt.kern THEN fnt.kern[<<prevcp, cp>>] ELSE 0

\* mutant of PrevCp: prev is never updated
PrevCp_Stuck(text, i) == 0

\* the code point before the i-th of text, as text_line and width track it in prev
PrevCp(text, i) == IF i = 1 THEN 0 ELSE text[i - 1]

\* MSDFFont.width(text, size): the sum over the code points lo..hi, by halves
RECURSIVE WidthFrom(_, _, _, _)
WidthFrom(fnt, text, lo, hi) ==
    IF lo > hi THEN 0
    ELSE IF lo = hi
    THEN KernGet(fnt, PrevCp(text, lo), text[lo]) + GlyphGet(fnt, text[lo]).adv
    ELSE LET mid == (lo + hi) \div 2
         IN  WidthFrom(fnt, text, lo, mid) + WidthFrom(fnt, text, mid + 1, hi)

Width(fnt, text, size) == WidthFrom(fnt, text, 1, Len(text)) * size

----------------------------------------------------------------------------
(* Renderer: operations on the renderer state r *)

EmptyData == [len |-> 0, quads |-> <<>>]

\* the renderer's fields, and the frame's record of draw calls, as one value
R == [data |-> data, tex |-> tex, uTexSize |-> uTexSize, nquads |-> nquads,
      nbatches |-> nbatches, draws |-> draws, nissued |-> nissued, changes |-> changes]

\* mutant of Flush: the buffer is drawn but not cleared
Flush_KeepBuffer(r) ==
    IF r.data.len = 0 THEN r
    ELSE LET n == r.data.len \div vbo_items_per_quad
         IN  [r EXCEPT !.nquads = @ + n, !.nbatches = @ + 1,
                       !.draws = Append(@, [tex |-> r.tex, count |-> n * 6,
                                            quads |-> SubSeq(r.data.quads, 1, n)])]

\* Renderer.flush
Flush(r) ==
    IF r.data.len = 0 THEN r
    ELSE IF r.data.len % vbo_items_per_quad # 0 THEN r   \* the assertion fails
    ELSE LET n == r.data.len \div vbo_items_per_quad
         IN  [r EXCEPT !.nquads = @ + n, !.nbatches = @ + 1,
                       !.draws = Append(@, [tex |-> r.tex, count |-> n * 6,
                                            quads |-> SubSeq(r.data.quads, 1, n)]),
                       !.data = EmptyData]

\* mutant of SetTexture: no early return for an unchanged handle
SetTexture_NoEarlyReturn(r, h, w, hh) ==
    LET f == Flush(r)
    IN  [f EXCEPT !.uTexSize = <<w, hh>>, !.tex = h,
                  !.changes = IF h = r.tex THEN @ ELSE Append(@, r.nissued)]

\* mutant of SetTexture: the handle is rebound before the buffered quads are flushed
SetTexture_BindThenFlush(r, h, w, hh) ==
    IF h = r.tex THEN r
    ELSE LET f == Flush([r EXCEPT !.tex = h])
         IN  [f EXCEPT !.uTexSize = <<w, hh>>, !.changes = Append(@, r.nissued)]

\* Renderer.set_texture(tex, w, h) with a plain handle
SetTexture(r, h, w, hh) ==
    IF h = r.tex THEN r
    ELSE LET f == Flush(r)
         IN  [f EXCEPT !.uTexSize = <<w, hh>>, !.tex = h,
                       !.changes = Append(@, r.nissued)]

\* Renderer.set_texture(atlas)
SetTextureAtlas(r, a) == SetTexture(r, AtlasTex, a.img.size[1], a.img.size[2])

\* mutant of FlushIfFull: no capacity check at all
FlushIfFull_Never(r) == r

\* mutant of FlushIfFull: the buffer is flushed only once it is over capacity
FlushIfFull_OffByOne(r) == IF r.data.len > max_vbo_items THEN Flush(r) ELSE r

\* "if len(self.data) >= self.max_vbo_items: self.flush()"
FlushIfFull(r) == IF r.data.len >= max_vbo_items THEN Flush(r) ELSE r

\* mutant of ExtendQuad: the quad is put in front of the buffered ones
ExtendQuad_Prepend(r, q) ==
    LET f == FlushIfFull(r)
    IN  [f EXCEPT !.data = [len |-> f.data.len + q.floats,
                            quads |-> <<[q EXCEPT !.id = f.nissued + 1, !.tex = f.tex]>>
                                        \o f.data.quads],
                  !.nissued = @ + 1]

\* the capacity check followed by self.data.extend([...four vertices...])
ExtendQuad(r, q) ==
    LET f == FlushIfFull(r)
    IN  [f EXCEPT !.data = [len |-> f.data.len + q.floats,
                            quads |-> Append(f.data.quads,
                                             [q EXCEPT !.id = f.nissued + 1, !.tex = f.tex])],
                  !.nissued = @ + 1]

\* the floats of four vertices: ten attributes and a colour each
QuadFloats(cU, cL) == 2 * (10 + Len(cU)) + 2 * (10 + Len(cL))

\* mutant of Box: the radius is passed on unclamped
Box_UnclampedRadius(r, b) ==
    LET cU == ColorParse(b.colorU)
        cL == IF b.colorL.kind # "none" THEN ColorParse(b.colorL) ELSE cU
        w2 == b.x1 - b.x0
        h2 == b.y1 - b.y0
    IN  ExtendQuad(r, [id |-> 0, tex |-> 0, mode |-> 0, floats |-> QuadFloats(cU, cL),
                       pos |-> <<b.x0, b.y0, b.x1, b.y1>>,
                       tc |-> <<-w2, -h2, w2, h2>>,
                       sdf |-> <<w2, h2, 2 * b.radius>>, cu |-> cU, cl |-> cL])

\* Renderer.box; half-extents and radius are kept doubled in sdf and tc
Box(r, b) ==
    LET cU == ColorParse(b.colorU)
        cL == IF b.colorL.kind # "none" THEN ColorParse(b.colorL) ELSE cU
        w2 == b.x1 - b.x0
        h2 == b.y1 - b.y0
        r2 == Min2(Min2(w2, h2), 2 * b.radius)
    IN  ExtendQuad(r, [id |-> 0, tex |-> 0, mode |-> 0, floats |-> QuadFloats(cU, cL),
                       pos |-> <<b.x0, b.y0, b.x1, b.y1>>,
                       tc |-> <<-w2, -h2, w2, h2>>,
                       sdf |-> <<w2, h2, r2>>, cu |-> cU, cl |-> cL])

\* mutant of OutlineBox: the shadow is appended after outline and fill
OutlineBox_ShadowOnTop(r, o) ==
    LET shadowed == (o.shadow_offset > 0 \/ o.shadow_grow > 0) /\ o.shadow_alpha > 0
        r1 == Box(r, [x0 |-> o.x0, y0 |-> o.y0, x1 |-> o.x1, y1 |-> o.y1,
                      colorU |-> o.colorO, colorL |-> ColNone, radius |-> o.radius])
        r2 == Box(r1, [x0 |-> o.x0 + o.width, y0 |-> o.y0 + o.width,
                       x1 |-> o.x1 - o.width, y1 |-> o.y1 - o.width,
                       colorU |-> o.colorU, colorL |-> o.colorL,
                       radius |-> o.radius - o.width])
    IN  IF shadowed
        THEN Box(r2, [x0 |-> o.x0 + o.shadow_offset - o.shadow_grow,
                      y0 |-> o.y0 + o.shadow_offset - o.shadow_grow,
                      x1 |-> o.x1 + o.shadow_offset + o.shadow_grow,
                      y1 |-> o.y1 + o.shadow_offset + o.shadow_grow,
                      colorU |-> ColTuple(<<0, 0, 0, o.shadow_alpha>>),
                      colorL |-> ColNone,
                      radius |-> o.radius + o.shadow_grow])
        ELSE r2

\* Renderer.outline_box
OutlineBox(r, o) ==
    LET shadowed == (o.shadow_offset > 0 \/ o.shadow_grow > 0) /\ o.shadow_alpha > 0
        r1 == IF shadowed
              THEN Box(r, [x0 |-> o.x0 + o.shadow_offset - o.shadow_grow,
                           y0 |-> o.y0 + o.shadow_offset - o.shadow_grow,
                           x1 |-> o.x1 + o.shadow_offset + o.shadow_grow,
                           y1 |-> o.y1 + o.shadow_offset + o.shadow_grow,
                           colorU |-> ColTuple(<<0, 0, 0, o.shadow_alpha>>),
                           colorL |-> ColNone,
                           radius |-> o.radius + o.shadow_grow])
              ELSE r
        r2 == Box(r1, [x0 |-> o.x0, y0 |-> o.y0, x1 |-> o.x1, y1 |-> o.y1,
                       colorU |-> o.colorO, colorL |-> ColNone, radius |-> o.radius])
    IN  Box(r2, [x0 |-> o.x0 + o.width, y0 |-> o.y0 + o.width,
                 x1 |-> o.x1 - o.width, y1 |-> o.y1 - o.width,
                 colorU |-> o.colorU, colorL |-> o.colorL,
                 radius |-> o.radius - o.width])

\* mutant of TextStep: a glyph without image does not advance the pen
TextStep_SkipNoAdvance(st, fnt, c, cU, cL, i) ==
    LET cp == c.text[i]
        xk == st.x + KernGet(fnt, PrevCp(c.text, i), cp) * c.size
        g  == GlyphGet(fnt, cp)
        y  == c.y * MetricScale
    IN  [r |-> IF g.valid
               THEN ExtendQuad(st.r, [id |-> 0, tex |-> 0, mode |-> 1,
                        floats |-> QuadFloats(cU, cL),
                        pos |-> <<xk + g.p[1] * c.size, y + g.p[2] * c.size,
                                  xk + g.p[3] * c.size, y + g.p[4] * c.size>>,
                        tc |-> g.t, sdf |-> <<0, 0, 0>>, cu |-> cU, cl |-> cL])
               ELSE st.r,
         x |-> IF g.valid THEN xk + g.adv * c.size ELSE st.x]

\* one pass of the "for cp in map(ord, text)" loop of text_line, for the i-th
\* code point; st = [r |-> renderer state, x |-> pen position]
TextStep(st, fnt, c, cU, cL, i) ==
    LET cp == c.text[i]
        xk == st.x + KernGet(fnt, PrevCp(c.text, i), cp) * c.size
        g  == GlyphGet(fnt, cp)
        y  == c.y * MetricScale
    IN  [r |-> IF g.valid
               THEN ExtendQuad(st.r, [id |-> 0, tex |-> 0, mode |-> 1,
                        floats |-> QuadFloats(cU, cL),
                        pos |-> <<xk + g.p[1] * c.size, y + g.p[2] * c.size,
                                  xk + g.p[3] * c.size, y + g.p[4] * c.size>>,
                        tc |-> g.t, sdf |-> <<0, 0, 0>>, cu |-> cU, cl |-> cL])
               ELSE st.r,
         x |-> xk + g.adv * c.size]

\* the loop of text_line over the code points lo..hi in order, by halves
\* (the test on st1 has the first half evaluated before the second is entered)
RECURSIVE TextLoop(_, _, _, _, _, _, _)
TextLoop(st, fnt, c, cU, cL, lo, hi) ==
    IF lo > hi THEN st
    ELSE IF lo = hi THEN TextStep(st, fnt, c, cU, cL, lo)
    ELSE LET mid == (lo + hi) \div 2
             st1 == TextLoop(st, fnt, c, cU, cL, lo, mid)
         IN  IF st1.r.data.len >= 0
             THEN TextLoop(st1, fnt, c, cU, cL, mid + 1, hi)
             ELSE st1

\* mutant of AlignShift: the text is always shifted by half its width
AlignShift_AlwaysHalf(w, align) == w \div 2

\* "self.font.width(text, size) / align"; exact for the even widths the
\* metrics give
AlignShift(w, align) == w \div align

\* the pen position text_line starts from
TextLineStart(fnt, c) ==
    IF c.align # 0
    THEN c.x * MetricScale - AlignShift(Width(fnt, c.text, c.size), c.align)
    ELSE c.x * MetricScale

\* Renderer.text_line with font fnt active, whose atlas is a: the renderer
\* state it leaves, the pen positions its local x starts and ends with, and
\* the exception it raises ("if align:" with the NullFont active calls the
\* width method the NullFont does not have, after set_texture)
TextLineRun(r, fnt, a, c) ==
    LET r0 == SetTextureAtlas(r, a)
        cU == ColorParse(c.colorU)
        cL == IF c.colorL.kind # "none" THEN ColorParse(c.colorL) ELSE cU
    IN  IF c.align # 0 /\ ~HasWidth(fnt)
        THEN [r |-> r0, start |-> c.x * MetricScale, x |-> c.x * MetricScale,
              exc |-> "AttributeError"]
        ELSE LET x0 == TextLineStart(fnt, c)
                 st == TextLoop([r |-> r0, x |-> x0], fnt, c, cU, cL, 1, Len(c.text))
             IN  [r |-> st.r, start |-> x0, x |-> st.x, exc |-> "none"]

\* the renderer state Renderer.text_line leaves
TextLine(r, fnt, a, c) == TextLineRun(r, fnt, a, c).r

\* the renderer's fields take the values of r; texture changes are recorded
\* per frame only
Commit(r) ==
    /\ data' = r.data
    /\ tex' = r.tex
    /\ uTexSize' = r.uTexSize
    /\ nquads' = r.nquads
    /\ nbatches' = r.nbatches
    /\ draws' = r.draws
    /\ nissued' = r.nissued
    /\ changes' = IF frame = "open" THEN r.changes ELSE changes

\* the application makes at most MaxOps renderer calls between two begin_frame calls
CountOp ==
    /\ nops < MaxOps
    /\ nops' = nops + 1

----------------------------------------------------------------------------
(* Renderer: construction and calls *)

\* Renderer.__init__: empty buffer, a default atlas bound as texture, the null font
NewRenderer ==
    /\ data = EmptyData
    /\ tex = AtlasTex
    /\ uTexSize = <<DefaultInitSize, DefaultInitSize>>
    /\ nquads = 0
    /\ nbatches = 0
    /\ font = NullFont
    /\ default_font = NullFont
    /\ fonts = <<>>
    /\ frame = "none"
    /\ nops = 0
    /\ draws = <<>>
    /\ nissued = 0
    /\ changes = <<>>
    /\ call = [op |-> "__init__", arg |-> <<>>, ret |-> "None"]

\* no font or wrapping call has been made yet on the text t
NoTextCall(t) ==
    /\ t_text = t
    /\ t_font = NullFont
    /\ t_width = 0
    /\ t_size = 0
    /\ t_call = "none"
    /\ t_ret = <<>>
    /\ t_exc = "none"
    /\ t_cuts = <<>>

\* fit_text_in_box has not been called
NoFitCall ==
    /\ f_call = [x0 |-> 0, y0 |-> 0, x1 |-> 0, y1 |-> 0, initial_size |-> 0,
                 text |-> <<>>, halign |-> 2, valign |-> 2, line_spacing |-> 1,
                 min_size |-> 6, font |-> NullFont]
    /\ f_pc = "idle"
    /\ f_size = 0
    /\ f_tried = {}
    /\ f_ret = <<>>

\* a stand-alone atlas: TextureAtlas(initsize, maxsize)
InitAtlas ==
    /\ \E c \in AtlasConfigs : NewAtlas(c.initsize, c.maxsize)
    /\ NewRenderer
    /\ NoTextCall(<<>>)
    /\ NoFitCall

\* Renderer(): its atlas is TextureAtlas() with maxsize taken from GL
InitRender ==
    /\ NewAtlas(<<DefaultInitSize, DefaultInitSize>>, GLMaxTextureSize)
    /\ NewRenderer
    /\ NoTextCall(<<>>)
    /\ NoFitCall

\* Renderer.begin_frame, called by the draw loop
begin_frame ==
    /\ frame # "open"
    /\ frame' = "open"
    /\ call' = [op |-> "begin_frame", arg |-> <<>>, ret |-> "None"]
    /\ nops' = 0
    /\ data' = EmptyData
    /\ nquads' = 0
    /\ nbatches' = 0
    /\ draws' = <<>>
    /\ nissued' = 0
    /\ changes' = <<>>
    /\ UNCHANGED <<tex, uTexSize>>
    /\ UNCHANGED <<font, default_font, fonts>>
    /\ UNCHANGED atlasvars
    /\ UNCHANGED <<textvars, fitvars>>

\* Renderer.end_frame (the max_nquads/max_nbatches log statistics are left out)
end_frame ==
    /\ frame = "open"
    /\ frame' = "done"
    /\ call' = [op |-> "end_frame", arg |-> <<>>, ret |-> "None"]
    /\ Commit(Flush(R))
    /\ UNCHANGED <<nops, font, default_font, fonts>>
    /\ UNCHANGED atlasvars
    /\ UNCHANGED <<textvars, fitvars>>

\* Renderer.set_texture called by the application
set_texture(c) ==
    /\ CountOp
    /\ call' = [op |-> "set_texture", arg |-> c, ret |-> "None"]
    /\ Commit(IF c.atlas THEN SetTextureAtlas(R, Atlas) ELSE SetTexture(R, c.tex, c.w, c.h))
    /\ UNCHANGED <<frame, font, default_font, fonts>>
    /\ UNCHANGED atlasvars
    /\ UNCHANGED <<textvars, fitvars>>

\* Renderer.box
box(b) ==
    /\ frame = "open"
    /\ CountOp
    /\ call' = [op |-> "box", arg |-> b, ret |-> "None"]
    /\ Commit(Box(R, b))
    /\ UNCHANGED <<frame, font, default_font, fonts>>
    /\ UNCHANGED atlasvars
    /\ UNCHANGED <<textvars, fitvars>>

\* Renderer.outline_box
outline_box(o) ==
    /\ frame = "open"
    /\ CountOp
    /\ call' = [op |-> "outline_box", arg |-> o, ret |-> "None"]
    /\ Commit(OutlineBox(R, o))
    /\ UNCHANGED <<frame, font, default_font, fonts>>
    /\ UNCHANGED atlasvars
    /\ UNCHANGED <<textvars, fitvars>>

\* Renderer.text_line
text_line(c) ==
    /\ frame = "open"
    /\ CountOp
    /\ \E run \in {TextLineRun(R, font, Atlas, c)} :
          /\ call' = [op |-> "text_line", arg |-> c, ret |-> "None",
                      exc |-> run.exc, pen |-> <<run.start, run.x>>]
          /\ Commit(run.r)
    /\ UNCHANGED <<frame, font, default_font, fonts>>
    /\ UNCHANGED atlasvars
    /\ UNCHANGED <<textvars, fitvars>>

\* mutant of KeptFont: a failed load leaves the null font selected
KeptFont_Reset(fnt) == NullFont

\* self.font after a failed load: "self.font = MSDFFont(...)" raised before
\* the assignment, so the selected font is the one from before the call
KeptFont(fnt) == fnt

\* mutant of DefaultAfterLoad: every loaded font becomes the default font
DefaultAfterLoad_Latest(dflt, fnt) == fnt

\* "if not self.default_font: self.default_font = self.font"
DefaultAfterLoad(dflt, fnt) == IF ~Truthy(dflt) THEN fnt ELSE dflt

\* Renderer.add_font(file): MSDFFont(file, atlas) puts the font's page into the
\* atlas; a missing asset, AtlasFullError or a malformed JSON makes add_font
\* log the error and return None
add_font(file) ==
    LET asset == FontAsset(file)
        p == PutResult(Atlas, asset.page)
        failed == /\ call' = [op |-> "add_font", arg |-> file, ret |-> "None"]
                  /\ font' = KeptFont(font)
                  /\ UNCHANGED <<data, tex, uTexSize, nquads, nbatches, draws, nissued,
                                 changes, default_font, fonts>>
    IN  /\ CountOp
        /\ Len(placed) < MaxFonts
        /\ IF ~asset.exists
           THEN failed /\ UNCHANGED atlasvars
           ELSE /\ arg' = asset.page
                /\ prev' = Atlas
                /\ ret' = IF p.ok THEN p.rect ELSE "AtlasFullError"
                /\ img' = p.img
                /\ front' = p.front
                /\ tex_valid' = p.tex_valid
                /\ uploads' = p.uploads
                /\ placed' = IF p.ok THEN Append(placed, p.rect) ELSE placed
                /\ UNCHANGED <<maxsize, initsize>>
                /\ IF ~p.ok \/ Malformed(file)
                   THEN failed
                   ELSE LET fnt == MSDFFont(file, p.rect)
                            a2  == [img |-> p.img, front |-> p.front,
                                    tex_valid |-> p.tex_valid, maxsize |-> maxsize,
                                    uploads |-> p.uploads]
                        IN  /\ call' = [op |-> "add_font", arg |-> file, ret |-> fnt.name]
                            /\ font' = fnt
                            /\ Commit(SetTextureAtlas([R EXCEPT !.tex = 0], a2))
                            /\ fonts' = (fnt.name :> fnt) @@ fonts
                            /\ default_font' = DefaultAfterLoad(default_font, fnt)
        /\ UNCHANGED frame
        /\ UNCHANGED <<textvars, fitvars>>

\* bool(font) for an argument of set_font: None, the empty string and the
\* NullFont are falsy
ArgTruthy(a) ==
    CASE a.kind = "none" -> FALSE
      [] a.kind = "str"  -> a.name # ""
      [] OTHER           -> Truthy(a.font)

\* the font set_font(a) selects
SetFont(a) ==
    IF ~ArgTruthy(a) THEN default_font
    ELSE IF a.kind = "str"
    THEN (IF a.name \in DOMAIN fonts THEN fonts[a.name] ELSE default_font)
    ELSE a.font

\* Renderer.set_font(a); it returns the font selected
set_font(a) ==
    /\ CountOp
    /\ font' = SetFont(a)
    /\ call' = [op |-> "set_font", arg |-> a, ret |-> SetFont(a)]
    /\ UNCHANGED <<data, tex, uTexSize, nquads, nbatches, draws, nissued, changes,
                   default_font, fonts, frame>>
    /\ UNCHANGED atlasvars
    /\ UNCHANGED <<textvars, fitvars>>

----------------------------------------------------------------------------
(* Font queries: glyph lookup and MSDFFont.width *)

\* longest text handed to width and wrap_text
MaxTextLen == 5

\* code points of the texts: 'a', ' ', '?' and '\n'
Alphabet == {97, 32, 63, 10}

\* str.isalnum() and the whitespace str.strip() removes, on Alphabet
IsAlnum(cp) == cp = 97

IsSpace(cp) == cp \in {32, 10}

Strings == UNION { [1..n -> Alphabet] : n \in 0..MaxTextLen }

\* the fonts the queries are made on: the null font, and loaded fonts with
\* every choice of fallback
QueryFonts ==
    {NullFont} \cup
    { MSDFFont(f, <<0, 0, FontAsset(f).page[1], FontAsset(f).page[2]>>) :
        f \in {"bahn", "wide", "repl", "mono"} }

\* sizes handed to width and wrap_text
Sizes == {1, 3}

\* the queries start from a text and a renderer that made no call yet
InitText ==
    /\ NewAtlas(<<DefaultInitSize, DefaultInitSize>>, GLMaxTextureSize)
    /\ NewRenderer
    /\ \E t \in Strings : NoTextCall(t)
    /\ NoFitCall

\* font.glyphs.get(cp, font.fallback) for the code point of a one-character text
glyph_get(fnt) ==
    /\ t_call = "none"
    /\ Len(t_text) = 1
    /\ t_call' = "glyph"
    /\ t_font' = fnt
    /\ t_ret' = GlyphGet(fnt, t_text[1])
    /\ UNCHANGED <<t_text, t_width, t_size, t_exc, t_cuts>>
    /\ UNCHANGED <<atlasvars, rendervars, fitvars>>

\* font.width(text, size)
font_width(fnt, size) ==
    /\ t_call = "none"
    /\ t_call' = "width"
    /\ t_font' = fnt
    /\ t_size' = size
    /\ IF HasWidth(fnt)
       THEN t_ret' = Width(fnt, t_text, size) /\ t_exc' = "none"
       ELSE t_ret' = <<>> /\ t_exc' = "AttributeError"
    /\ UNCHANGED <<t_text, t_width, t_cuts>>
    /\ UNCHANGED <<atlasvars, rendervars, fitvars>>

\* text[a:b] of Python for 0 <= a and any b: a negative b counts from the end
PySlice(text, a, b) ==
    LET n  == Len(text)
        b0 == IF b < 0 THEN b + n ELSE b
        hi == IF b0 < 0 THEN 0 ELSE IF b0 > n THEN n ELSE b0
    IN  IF a >= hi THEN <<>> ELSE SubSeq(text, a + 1, hi)

\* str.strip(): the text without its leading and trailing whitespace
Strip(text) ==
    LET keep == { i \in 1..Len(text) : ~IsSpace(text[i]) }
    IN  IF keep = {} THEN <<>>
        ELSE LET lo == CHOOSE i \in keep : \A j \in keep : i <= j
                 hi == CHOOSE i \in keep : \A j \in keep : j <= i
             IN  SubSeq(text, lo, hi)

\* check_width(subtext) of wrap_text: the stripped line and its width
\* (widths in units of 1/MetricScale, as Width gives them)
check_width(fnt, size, subtext) ==
    LET line == Strip(subtext)
    IN  <<line, Width(fnt, line, 1) * size>>

\* the part of text a slice text[a:b] covers, as positions <<lo, hi>> between
\* characters (0 before the first, Len(text) after the last)
SliceCut(text, a, b) ==
    LET n  == Len(text)
        b0 == IF b < 0 THEN b + n ELSE b
        hi == IF b0 < 0 THEN 0 ELSE IF b0 > n THEN n ELSE b0
    IN  <<a, IF hi < a THEN a ELSE hi>>

\* the locals of wrap_text before its loop; out is what has been yielded,
\* cuts the slice of text each yielded line was taken from, lastcut the slice
\* last handed to check_width
WrapStart ==
    [start |-> 0, end |-> 0, last |-> <<<<>>, 0>>, out |-> <<>>,
     lastcut |-> <<0, 0>>, cuts |-> <<>>]

\* one iteration of 'for i, c in enumerate(text)' (i counts from 0)
WrapChar(fnt, width, size, text, i, w) ==
    LET c == text[i + 1]
    IN  IF c = 10
        THEN LET lc == check_width(fnt, size, PySlice(text, w.start, i - 1))
                 ct == SliceCut(text, w.start, i - 1)
             IN  [start |-> i + 1, end |-> i + 1, last |-> lc,
                  out |-> Append(w.out, lc),
                  lastcut |-> ct, cuts |-> Append(w.cuts, ct)]
        ELSE IF ~IsAlnum(c)
        THEN LET lc1 == check_width(fnt, size, PySlice(text, w.start, i + 1))
             IN  IF lc1[2] <= width * MetricScale
                 THEN [w EXCEPT !.end = i + 1, !.last = lc1,
                                !.lastcut = SliceCut(text, w.start, i + 1)]
                 ELSE LET brk  == w.end > w.start
                          out1 == IF brk
                                  THEN Append(w.out,
                                         check_width(fnt, size,
                                           PySlice(text, w.start, w.end)))
                                  ELSE w.out
                          cuts1 == IF brk
                                   THEN Append(w.cuts, SliceCut(text, w.start, w.end))
                                   ELSE w.cuts
                          start1 == w.end
                          lc2 == check_width(fnt, size,
                                             PySlice(text, start1, i + 1))
                          ct2 == SliceCut(text, start1, i + 1)
                      IN  IF lc2[2] > width * MetricScale
                          THEN [start |-> i + 1, end |-> i + 1, last |-> lc2,
                                out |-> Append(out1, lc2),
                                lastcut |-> ct2, cuts |-> Append(cuts1, ct2)]
                          ELSE [start |-> start1, end |-> i + 1, last |-> lc2,
                                out |-> out1,
                                lastcut |-> ct2, cuts |-> cuts1]
        ELSE w

\* the loop of wrap_text from iteration i on (w1 ranges over the one state
\* iteration i leaves, so that it is computed once)
RECURSIVE WrapLoop(_, _, _, _, _, _)
WrapLoop(fnt, width, size, text, i, w) ==
    IF i >= Len(text) THEN w
    ELSE CHOOSE r \in { WrapLoop(fnt, width, size, text, i + 1, w1) :
                          w1 \in {WrapChar(fnt, width, size, text, i, w)} } : TRUE

\* mutant of WrapTail: an empty rest of the text is not yielded
WrapTail_SkipEmpty(fnt, width, size, text, w) ==
    LET n   == Len(text)
        lcf == check_width(fnt, size, PySlice(text, w.start, n))
        ctf == SliceCut(text, w.start, n)
    IN  IF lcf[1] = <<>> THEN w
        ELSE [w EXCEPT !.last = lcf, !.out = Append(w.out, lcf),
                       !.lastcut = ctf, !.cuts = Append(w.cuts, ctf)]

\* the yields after the loop of wrap_text
WrapTail(fnt, width, size, text, w) ==
    LET n   == Len(text)
        lcf == check_width(fnt, size, PySlice(text, w.start, n))
        ctf == SliceCut(text, w.start, n)
    IN  IF lcf[2] <= width * MetricScale \/ ~(w.end > w.start)
        THEN [w EXCEPT !.last = lcf, !.out = Append(w.out, lcf),
                       !.lastcut = ctf, !.cuts = Append(w.cuts, ctf)]
        ELSE LET lc1  == check_width(fnt, size, PySlice(text, w.start, w.end))
                 ct1  == SliceCut(text, w.start, w.end)
                 rest == Strip(PySlice(text, w.end, n))
                 ct2  == SliceCut(text, w.end, n)
             IN  IF rest # <<>>
                 THEN [w EXCEPT !.last = check_width(fnt, size, rest),
                                !.out = w.out \o <<lc1, check_width(fnt, size, rest)>>,
                                !.lastcut = ct2,
                                !.cuts = w.cuts \o <<ct1, ct2>>]
                 ELSE [w EXCEPT !.last = lc1, !.out = Append(w.out, lc1),
                                !.lastcut = ct1, !.cuts = Append(w.cuts, ct1)]

\* the run of wrap_text(width, size, text) to its end, with fnt the selected font
WrapRun(fnt, width, size, text) ==
    CHOOSE r \in { WrapTail(fnt, width, size, text, w) :
                     w \in {WrapLoop(fnt, width, size, text, 0, WrapStart)} } : TRUE

\* list(wrap_text(width, size, text)) with fnt the selected font
WrapText(fnt, width, size, text) == WrapRun(fnt, width, size, text).out

\* maximum widths handed to wrap_text
WrapWidths == {2, 4}

\* list(renderer.wrap_text(width, size, text)) with fnt selected
wrap_text(fnt, width, size) ==
    /\ t_call = "none"
    /\ t_call' = "wrap"
    /\ t_font' = fnt
    /\ t_width' = width
    /\ t_size' = size
    /\ IF HasWidth(fnt)
       THEN /\ t_ret' = WrapText(fnt, width, size, t_text)
            /\ t_cuts' = WrapRun(fnt, width, size, t_text).cuts
            /\ t_exc' = "none"
       ELSE /\ t_ret' = <<>>
            /\ t_cuts' = <<>>
            /\ t_exc' = "AttributeError"
    /\ UNCHANGED t_text
    /\ UNCHANGED <<atlasvars, rendervars, fitvars>>

----------------------------------------------------------------------------
(* Renderer.fit_text_in_box *)

\* text sizes are counted in units of 1/SizeScale, which keeps size * 0.9
\* exact for the sizes tried; widths and heights of wrapped text in units of
\* 1/(MetricScale * SizeScale), layout coordinates in halves of that
SizeScale == 10000

\* one rectangle coordinate in layout units
Coord(v) == v * 2 * MetricScale * SizeScale

\* font.max_height = ascender - descender, font.line_height (0 for the NullFont)
MaxHeight(fnt) ==
    IF Truthy(fnt)
    THEN FontAsset(fnt.file).ascender - FontAsset(fnt.file).descender
    ELSE 0

LineHeight(fnt) == IF Truthy(fnt) THEN FontAsset(fnt.file).lineHeight ELSE 0

\* texts, rectangles and sizes handed to fit_text_in_box
FitTexts ==
    { <<>>, <<97>>, <<97, 32, 97>>, <<97, 97, 32, 97, 63, 97>>, <<97, 10, 97, 32, 97>> }

FitRects == { <<0, 0, 40, 70>>, <<10, 20, 30, 26>> }

FitCalls ==
    { [x0 |-> r[1], y0 |-> r[2], x1 |-> r[3], y1 |-> r[4], initial_size |-> i,
       text |-> t, halign |-> ha, valign |-> va, line_spacing |-> ls,
       min_size |-> m, font |-> f] :
        r \in FitRects, i \in {5, 12, 14}, t \in FitTexts,
        ha \in 0..2, va \in 0..2, ls \in {1, 2}, m \in {6, 10},
        f \in {NullFont, MSDFFont("bahn", <<0, 0, 512, 512>>)} }

\* lines = list(self.wrap_text(sx, size, text))
FitLines(c, size) == WrapText(c.font, (c.x1 - c.x0) * SizeScale, size, c.text)

\* width = max(w for _,w in lines)
FitWidth(lines) == SetMax({lines[k][2] : k \in 1..Len(lines)})

\* line_height = font.max_height * size, line_dy = font.line_height * size * line_spacing
FitLineHeight(c, size) == MaxHeight(c.font) * size * MetricScale

FitLineDy(c, size) == LineHeight(c.font) * size * c.line_spacing * MetricScale

\* height = line_dy * (len(lines) - 1) + line_height
FitHeight(c, size, lines) ==
    FitLineDy(c, size) * (Len(lines) - 1) + FitLineHeight(c, size)

\* the block of lines fits the rectangle: (width <= sx) and (height <= sy)
FitsBox(c, size, lines) ==
    /\ \A k \in 1..Len(lines) : lines[k][2] <= (c.x1 - c.x0) * MetricScale * SizeScale
    /\ FitHeight(c, size, lines) <= (c.y1 - c.y0) * MetricScale * SizeScale

\* the test that ends the loop (lines ranges over the one wrap_text result)
FitBreak(c, size) ==
    \/ size <= c.min_size * SizeScale
    \/ \E lines \in {FitLines(c, size)} : FitsBox(c, size, lines)

\* mutant of Shrink: the size is left as it is
Shrink_Stuck(size, min_size) == size

\* mutant of Shrink: the size is not kept at or above min_size
Shrink_NoFloor(size, min_size) == Min2((size * 9) \div 10, size - SizeScale)

\* size = max(min(size * 0.9, size - 1.0), min_size)
Shrink(size, min_size) ==
    Max2(Min2((size * 9) \div 10, size - SizeScale), min_size * SizeScale)

\* y0 after "if valign == 1: ... elif valign == 2: ..." for a block of height h
\* (in layout units)
FitTop(c, h) ==
    IF c.valign = 1 THEN Coord(c.y1) - h
    ELSE IF c.valign = 2 THEN (Coord(c.y0) + Coord(c.y1) - h) \div 2
    ELSE Coord(c.y0)

\* x of a line of width w (in layout units)
FitX(c, w) ==
    IF c.halign = 1 THEN Coord(c.x1) - w
    ELSE IF c.halign = 2 THEN (Coord(c.x0) + Coord(c.x1) - w) \div 2
    ELSE Coord(c.x0)

\* mutant of LayoutLines: every line is placed at the left edge
LayoutLines_AlwaysLeft(c, size, lines) ==
    [k \in 1..Len(lines) |->
        [x0 |-> Coord(c.x0),
         y0 |-> FitTop(c, 2 * FitHeight(c, size, lines)) + (k - 1) * 2 * FitLineDy(c, size),
         x1 |-> Coord(c.x0) + 2 * lines[k][2],
         y1 |-> FitTop(c, 2 * FitHeight(c, size, lines)) + (k - 1) * 2 * FitLineDy(c, size)
                + 2 * FitLineHeight(c, size),
         size |-> size, line |-> lines[k][1]]]

\* mutant of LayoutLines: every entry spans the whole rectangle width
LayoutLines_FullWidth(c, size, lines) ==
    [k \in 1..Len(lines) |->
        [x0 |-> Coord(c.x0),
         y0 |-> FitTop(c, 2 * FitHeight(c, size, lines)) + (k - 1) * 2 * FitLineDy(c, size),
         x1 |-> Coord(c.x1),
         y1 |-> FitTop(c, 2 * FitHeight(c, size, lines)) + (k - 1) * 2 * FitLineDy(c, size)
                + 2 * FitLineHeight(c, size),
         size |-> size, line |-> lines[k][1]]]

\* "layout the actual text": the list of (x0,y0, x1,y1, size, line) built
\* from the lines of the last pass of the loop
LayoutLines(c, size, lines) ==
    [k \in 1..Len(lines) |->
        [x0 |-> FitX(c, 2 * lines[k][2]),
         y0 |-> FitTop(c, 2 * FitHeight(c, size, lines)) + (k - 1) * 2 * FitLineDy(c, size),
         x1 |-> FitX(c, 2 * lines[k][2]) + 2 * lines[k][2],
         y1 |-> FitTop(c, 2 * FitHeight(c, size, lines)) + (k - 1) * 2 * FitLineDy(c, size)
                + 2 * FitLineHeight(c, size),
         size |-> size, line |-> lines[k][1]]]

\* what fit_text_in_box returns when its loop ends at size (lines ranges over
\* the one wrap_text result)
FitLayout(c, size) ==
    CHOOSE res \in { LayoutLines(c, size, lines) : lines \in {FitLines(c, size)} } : TRUE

\* fit_text_in_box is entered: size = initial_size
fit_text_in_box(c) ==
    /\ f_pc = "idle"
    /\ f_pc' = "loop"
    /\ f_call' = c
    /\ f_size' = c.initial_size * SizeScale
    /\ UNCHANGED <<f_tried, f_ret>>
    /\ UNCHANGED <<atlasvars, rendervars, textvars>>

\* one pass of the loop with the NullFont selected: wrap_text raises
fit_raise ==
    /\ f_pc = "loop"
    /\ ~HasWidth(f_call.font)
    /\ f_pc' = "raised"
    /\ UNCHANGED <<f_call, f_size, f_tried, f_ret>>
    /\ UNCHANGED <<atlasvars, rendervars, textvars>>

\* one pass of the loop that does not break: the size shrinks
fit_shrink ==
    /\ f_pc = "loop"
    /\ HasWidth(f_call.font)
    /\ ~FitBreak(f_call, f_size)
    /\ f_size' = Shrink(f_size, f_call.min_size)
    /\ f_tried' = f_tried \cup {f_size}
    /\ UNCHANGED <<f_call, f_pc, f_ret>>
    /\ UNCHANGED <<atlasvars, rendervars, textvars>>

\* the pass of the loop that breaks, and the layout after it
fit_layout ==
    /\ f_pc = "loop"
    /\ HasWidth(f_call.font)
    /\ FitBreak(f_call, f_size)
    /\ f_pc' = "done"
    /\ f_ret' = FitLayout(f_call, f_size)
    /\ UNCHANGED <<f_call, f_size, f_tried>>
    /\ UNCHANGED <<atlasvars, rendervars, textvars>>

NextAtlas == \E bm \in Bitmaps : Put(bm)

SpecAtlas == InitAtlas /\ [][NextAtlas]_vars

NextRender ==
    \/ begin_frame
    \/ end_frame
    \/ \E c \in SetTextureCalls : set_texture(c)
    \/ \E b \in BoxCalls : box(b)
    \/ \E o \in OutlineBoxCalls : outline_box(o)
    \/ \E c \in TextLineCalls : text_line(c)
    \/ \E f \in FontFiles : add_font(f)

SpecRender == InitRender /\ [][NextRender]_vars

\* font files handed to add_font() while fonts are loaded: loadable ones, one
\* whose page exceeds the atlas limit, a missing one and a malformed one
LoadFiles == {"bahn", "repl", "wide", "missing", "broken"}

\* font files handed to add_font() between draw calls: a loadable one and a
\* malformed one
DrawFiles == {"bahn", "broken"}

\* font files handed to add_font() while fonts are selected: loadable ones (two
\* of them name themselves "bahn", one has the empty name) and a missing one
SelectFiles == {"bahn", "bold", "anon", "missing"}

\* text_line() calls made between font loads
LoadTextCalls ==
    { [x |-> 50, y |-> 0, size |-> 2, text |-> t, colorU |-> ColStr("fff"),
       colorL |-> ColNone, align |-> al] : t \in {<<97, 63, 32>>, <<122>>}, al \in 0..2 }

\* set_font() arguments: None, names (registered or not, or empty), font objects
SetFontArgs ==
    { [kind |-> "none", name |-> "", font |-> NullFont] }
    \cup { [kind |-> "str", name |-> n, font |-> NullFont] : n \in {"bahn", "repl", "", "symbol"} }
    \cup { [kind |-> "font", name |-> "", font |-> f] :
              f \in {NullFont} \cup {fonts[n] : n \in DOMAIN fonts} }

\* box() call made while fonts are loaded
LoadBox ==
    [x0 |-> 0, y0 |-> 0, x1 |-> 100, y1 |-> 100, colorU |-> ColStr("f30"),
     colorL |-> ColNone, radius |-> 200]

NextFonts ==
    \/ begin_frame
    \/ end_frame
    \/ box(LoadBox)
    \/ \E f \in LoadFiles : add_font(f)

SpecFonts == InitRender /\ [][NextFonts]_vars

\* a draw loop that loads fonts while it draws boxes and text
NextDraw ==
    \/ begin_frame
    \/ end_frame
    \/ box(LoadBox)
    \/ \E c \in LoadTextCalls : text_line(c)
    \/ \E f \in DrawFiles : add_font(f)

SpecDraw == InitRender /\ [][NextDraw]_vars

\* an application that loads fonts and selects among them
NextSelect ==
    \/ begin_frame
    \/ end_frame
    \/ \E f \in SelectFiles : add_font(f)
    \/ \E a \in SetFontArgs : set_font(a)

SpecSelect == InitRender /\ [][NextSelect]_vars

NextText ==
    \/ \E f \in QueryFonts : glyph_get(f)
    \/ \E f \in QueryFonts, sz \in Sizes : font_width(f, sz)
    \/ \E f \in QueryFonts, w \in WrapWidths, sz \in Sizes : wrap_text(f, w, sz)

SpecText == InitText /\ [][NextText]_vars

NextFit ==
    \/ \E c \in FitCalls : fit_text_in_box(c)
    \/ fit_raise
    \/ fit_shrink
    \/ fit_layout

SpecFit == InitRender /\ [][NextFit]_vars

\* the calls whose termination is checked: one alignment each (the loop does
\* not read halign and valign)
LiveCalls == { c \in FitCalls : c.halign = 2 /\ c.valign = 2 }

NextFitLive ==
    \/ \E c \in LiveCalls : fit_text_in_box(c)
    \/ fit_raise
    \/ fit_shrink
    \/ fit_layout

\* a call that was entered keeps running until it returns or raises
SpecFitLive ==
    InitRender /\ [][NextFitLive]_vars /\ WF_vars(fit_raise \/ fit_shrink \/ fit_layout)

----------------------------------------------------------------------------
(* Claims about TextureAtlas (checked under SpecAtlas) *)

\* two rectangles <<x0,y0,x1,y1>> share a pixel
Overlap(a, b) == a[1] < b[3] /\ b[1] < a[3] /\ a[2] < b[4] /\ b[2] < a[4]

IsPow2(n) == \E k \in 0..20 : n = 2^k

\* C1: the rectangles returned by the successful put() calls are pairwise
\* non-overlapping: no two of them share a pixel.
C1_NoOverlap ==
    \A i, j \in 1..Len(placed) : i < j => ~Overlap(placed[i], placed[j])

\* three rectangles have been placed, one of them not on the top row and one
\* not in the left column
C1_Witness ==
    /\ Len(placed) >= 3
    /\ \E i \in 1..Len(placed) : placed[i][2] > 0
    /\ \E i \in 1..Len(placed) : placed[i][1] > 0

\* C2: put() of a bitmap whose width or height exceeds maxsize raises
\* AtlasFullError and leaves the atlas (front, image size and contents,
\* tex_valid) as it was before the call, with no texture upload issued.
C2_OversizeRaises ==
    (arg[1] > maxsize \/ arg[2] > maxsize) =>
        /\ ret = "AtlasFullError"
        /\ Atlas = prev

\* an oversized bitmap was put into an atlas that already holds a rectangle
C2_Witness ==
    /\ (arg[1] > maxsize \/ arg[2] > maxsize)
    /\ ret = "AtlasFullError"
    /\ placed # <<>>

\* C3: put() raises AtlasFullError only when no point of the front yields a
\* placement whose right and bottom edges are both <= maxsize; whenever a
\* front candidate is valid, put() succeeds.
C3_RaisesOnlyWhenNoCandidate ==
    ret = "AtlasFullError" =>
        \A i \in 1..Len(prev.front) : ~CandValid(prev.front, i, arg, maxsize)

C5_MaxsizeCeiling ==
    img.size[1] <= maxsize /\ img.size[2] <= maxsize

----------------------------------------------------------------------------
(* Claims about the Renderer's batching (checked under SpecRender) *)

\* the quads of the draw calls j..Len(ds), in the order drawn
RECURSIVE DrawnFrom(_, _)
DrawnFrom(ds, j) == IF j > Len(ds) THEN <<>> ELSE ds[j].quads \o DrawnFrom(ds, j + 1)

Drawn == DrawnFrom(draws, 1)

CeilDiv(a, b) == (a + b - 1) \div b

\* C6: in a frame during which the bound texture never changed, the number of
\* draw calls issued by the time end_frame returns is ceil(quads / batch_size),
\* batch_size being 292; zero when no quad was appended.
C6_DrawCallCount ==
    (frame = "done" /\ changes = <<>>) =>
        /\ batch_size = 292
        /\ Len(draws) = CeilDiv(nissued, batch_size)
        /\ nbatches = Len(draws)

\* a frame with a constant texture whose quads needed more than one batch
C6_Witness ==
    /\ frame = "done"
    /\ changes = <<>>
    /\ nissued > batch_size
    /\ Len(draws) = 2

\* a step is a set_texture call, made directly or by text_line
IsSetTextureStep == call'.op \in {"set_texture", "text_line"}

\* the step flushes the quads buffered before it in a draw call that binds the
\* handle bound before it
FlushedWithOldHandle ==
    /\ Len(draws') > Len(draws)
    /\ draws'[Len(draws) + 1].tex = tex
    /\ draws'[Len(draws) + 1].quads = data.quads

\* no batch (drawn or still buffered) holds quads from both sides of a change
\* of the bound texture
NoBatchSpansChange ==
    \A k \in {changes[i] : i \in 1..Len(changes)} :
        /\ \A j \in 1..Len(draws) :
              LET qs == draws[j].quads
              IN  qs # <<>> => (qs[Len(qs)].id <= k \/ qs[1].id > k)
        /\ data.quads # <<>> =>
              (data.quads[Len(data.quads)].id <= k \/ data.quads[1].id > k)

\* C7: when set_texture (directly or via text_line) is called with a handle
\* different from the bound one while quads are buffered, those quads are
\* flushed in a draw call that binds the old handle before the bound handle
\* changes; quads appended afterwards are never in the same draw call as
\* quads appended before the change.
C7_TextureChangeFlushes ==
    /\ [][(tex' # tex /\ data.quads # <<>> /\ IsSetTextureStep)
            => FlushedWithOldHandle]_vars
    /\ []NoBatchSpansChange

\* the bound texture changed while quads were buffered, and quads were
\* appended after the change
C7_Witness ==
    /\ frame = "open"
    /\ \E i \in 1..Len(changes) : changes[i] > 0 /\ nissued > changes[i]
    /\ draws # <<>>
    /\ data.quads # <<>>

\* C8: the quads of the frame's draw calls, concatenated in the order the draw
\* calls were issued (followed by those still buffered), are the quads in the
\* order box/outline_box/text_line appended them.
C8_DrawOrderIsIssueOrder ==
    LET all == Drawn \o data.quads
    IN  /\ Len(all) = nissued
        /\ \A i \in 1..Len(all) : all[i].id = i
        /\ frame = "done" => Len(Drawn) = nissued

\* a finished frame with a full batch (flushed for capacity) and a batch
\* flushed by a texture change
C8_Witness ==
    /\ frame = "done"
    /\ changes # <<>>
    /\ \E j \in 1..Len(draws) : Len(draws[j].quads) = batch_size
    /\ \E j \in 1..Len(draws) : Len(draws[j].quads) < batch_size
    /\ \E i \in 1..Len(Drawn) : Drawn[i].mode = 0
    /\ \E i \in 1..Len(Drawn) : Drawn[i].mode = 1

\* C9: when end_frame has returned, every quad appended since begin_frame is
\* in exactly one draw call and the vertex buffer is empty.
C9_EndFrameDrawsAll ==
    frame = "done" =>
        /\ data = EmptyData
        /\ Len(Drawn) = nissued
        /\ {Drawn[i].id : i \in 1..Len(Drawn)} = 1..nissued
        /\ \A j \in 1..Len(draws) : draws[j].count = 6 * Len(draws[j].quads)

\* a finished frame whose last quads were flushed by end_frame itself
C9_Witness ==
    /\ frame = "done"
    /\ nissued >= 3
    /\ draws # <<>>
    /\ nquads = nissued
    /\ (changes = <<>> \/ changes[Len(changes)] < nissued)

\* C10: the number of buffered vertices is always a multiple of 4 (the float
\* buffer length a multiple of 56), so the assertion in flush() holds.
C10_WholeQuadsBuffered ==
    /\ data.len % vertex_attrib_count = 0
    /\ (data.len \div vertex_attrib_count) % 4 = 0
    /\ vbo_items_per_quad = 56
    /\ data.len % vbo_items_per_quad = 0
    /\ data.len = vbo_items_per_quad * Len(data.quads)

\* box quads with a 3-component and with an invalid colour, and a glyph quad,
\* are buffered
C10_Witness ==
    /\ data.len > 0
    /\ \E i \in 1..Len(data.quads) :
          data.quads[i].mode = 0 /\ data.quads[i].cl = <<255, 0, 255, 255>>
    /\ \E i \in 1..Len(data.quads) : data.quads[i].mode = 1

----------------------------------------------------------------------------
(* Claims about the batch capacity and the index buffer (checked under SpecRender) *)

\* the index buffer Renderer.__init__ uploads:
\* [i+o for i in range(0, batch_size*4, 4) for o in (0,2,1,1,2,3)], 1-based here
IboLen == batch_size * 6

IboIndex(k) == 4 * ((k - 1) \div 6) + <<0, 2, 1, 1, 2, 3>>[((k - 1) % 6) + 1]

\* the largest vertex index among the first n entries of the index buffer
IboMaxUpTo(n) == SetMax({IboIndex(k) : k \in 1..n})

IboMax == IboMaxUpTo(IboLen)

\* the last index entry of a quad is the largest of all entries up to it
IboLastIsMax == \A n \in 1..batch_size : IboMaxUpTo(6 * n) = IboIndex(6 * n)

\* C11: the buffer never holds more than batch_size = 292 quads; every draw
\* call covers at most 292 quads, reads only entries the index buffer has, and
\* those entries name vertices that were uploaded, all below the 16-bit limit.
C11_BatchCapacity ==
    /\ batch_size = 292
    /\ Len(data.quads) <= batch_size
    /\ data.len <= max_vbo_items
    /\ IboMax < 65536
    /\ IboLastIsMax
    /\ \A j \in 1..Len(draws) :
          /\ Len(draws[j].quads) <= batch_size
          /\ draws[j].count \in 1..IboLen
          /\ draws[j].count % 6 = 0
          /\ IboIndex(draws[j].count) < 4 * Len(draws[j].quads)

\* a draw call of a completely full buffer, flushed because another quad arrived
C11_Witness ==
    /\ \E j \in 1..Len(draws) : Len(draws[j].quads) = batch_size
    /\ data.quads # <<>>
    /\ changes = <<>>

----------------------------------------------------------------------------
(* Claims about set_texture, box and outline_box (checked under SpecRender) *)

\* the handle and the size a set_texture() call asks for
CallHandle(c) == IF c.atlas THEN AtlasTex ELSE c.tex

CallSize(c) == IF c.atlas THEN img.size ELSE <<c.w, c.h>>

\* C12: set_texture with the bound handle is a no-op (no flush, no draw call,
\* uTexSize, buffer and handle untouched); with a different handle it flushes
\* the buffered quads with the old handle, then sets uTexSize to (w,h) and
\* binds the new handle.
C12_SetTextureEffect ==
    [][\A c \in SetTextureCalls :
         (call'.op = "set_texture" /\ call'.arg = c) =>
            IF CallHandle(c) = tex
            THEN UNCHANGED <<data, tex, uTexSize, draws, nquads, nbatches>>
            ELSE /\ tex' = CallHandle(c)
                 /\ uTexSize' = CallSize(c)
                 /\ data' = EmptyData
                 /\ IF data.quads = <<>>
                    THEN UNCHANGED <<draws, nquads, nbatches>>
                    ELSE /\ draws' = Append(draws, [tex |-> tex,
                                                     count |-> 6 * Len(data.quads),
                                                     quads |-> data.quads])
                         /\ nbatches' = nbatches + 1
                         /\ nquads' = nquads + Len(data.quads)]_vars

\* a frame in which a buffered quad was flushed by a change to another handle,
\* followed by a call that left handle and uniform as they were
C12_Witness ==
    /\ frame = "open"
    /\ nops = 3
    /\ nissued = 1
    /\ changes = <<1>>
    /\ Len(draws) = 1
    /\ draws[1].tex = AtlasTex
    /\ tex = OtherTex
    /\ uTexSize = <<32, 16>>
    /\ data = EmptyData

\* the quad most recently appended to the buffer
LastQuad(d) == d.quads[Len(d.quads)]

\* C13: box(x0,y0,x1,y1,...,radius) appends exactly one quad, whose SDF
\* parameters are the half-extents w = (x1-x0)/2, h = (y1-y0)/2 and the radius
\* r = min(w, h, radius), so r never exceeds min(w, h); a 100x100 box with
\* radius 200 gets r = 50.  (sdf holds 2w, 2h, 2r.)
C13_BoxRadiusClamped ==
    [][\A b \in BoxCalls :
         (call'.op = "box" /\ call'.arg = b) =>
            /\ nissued' = nissued + 1
            /\ data'.quads # <<>>
            /\ LET q == LastQuad(data')
               IN  /\ q.id = nissued'
                   /\ q.mode = 0
                   /\ q.pos = <<b.x0, b.y0, b.x1, b.y1>>
                   /\ q.sdf[1] = b.x1 - b.x0
                   /\ q.sdf[2] = b.y1 - b.y0
                   /\ q.sdf[3] = Min2(Min2(q.sdf[1], q.sdf[2]), 2 * b.radius)
                   /\ q.sdf[3] <= q.sdf[1] /\ q.sdf[3] <= q.sdf[2]
                   /\ (b.x1 - b.x0 = 100 /\ b.y1 - b.y0 = 100 /\ b.radius = 200)
                         => q.sdf[3] = 2 * 50]_vars

\* the 100x100 box with radius 200 is buffered with radius 50, next to a box
\* whose radius was below its half-extents
C13_Witness ==
    /\ \E i \in 1..Len(data.quads) :
          data.quads[i].mode = 0 /\ data.quads[i].sdf = <<100, 100, 100>>
    /\ \E i \in 1..Len(data.quads) :
          data.quads[i].mode = 0 /\ data.quads[i].sdf = <<20, 10, 0>>

\* every quad of the frame so far, in the order drawn, then the buffered ones
AllQuads == Drawn \o data.quads

\* whether outline_box(o) is to draw a drop shadow
Shadowed(o) == (o.shadow_offset > 0 \/ o.shadow_grow > 0) /\ o.shadow_alpha > 0

\* C14: outline_box appends its quads in a fixed order: a shadow quad first if
\* and only if (shadow_offset > 0 or shadow_grow > 0) and shadow_alpha > 0,
\* then the outline-colour quad at the full rectangle, then the fill quad inset
\* by width on all four sides with the radius reduced by width: 2 or 3 quads.
C14_OutlineBoxOrder ==
    [][\A o \in OutlineBoxCalls :
         (call'.op = "outline_box" /\ call'.arg = o) =>
            LET n   == IF Shadowed(o) THEN 3 ELSE 2
                all == AllQuads'
                qo  == all[nissued + n - 1]
                qf  == all[nissued + n]
            IN  /\ nissued' = nissued + n
                /\ Len(all) = nissued'
                /\ Shadowed(o) =>
                      LET qs == all[nissued + 1]
                          d  == o.shadow_offset
                          g  == o.shadow_grow
                      IN  /\ qs.mode = 0
                          /\ qs.pos = <<o.x0 + d - g, o.y0 + d - g, o.x1 + d + g, o.y1 + d + g>>
                          /\ qs.cu = <<0, 0, 0, o.shadow_alpha>>
                          /\ qs.cl = qs.cu
                /\ qo.mode = 0
                /\ qo.pos = <<o.x0, o.y0, o.x1, o.y1>>
                /\ qo.cu = ColorParse(o.colorO)
                /\ qo.sdf[3] = Min2(Min2(qo.sdf[1], qo.sdf[2]), 2 * o.radius)
                /\ qf.mode = 0
                /\ qf.pos = <<o.x0 + o.width, o.y0 + o.width, o.x1 - o.width, o.y1 - o.width>>
                /\ qf.cu = ColorParse(o.colorU)
                /\ qf.sdf[3] = Min2(Min2(qf.sdf[1], qf.sdf[2]), 2 * (o.radius - o.width))]_vars

\* a frame whose buffer holds the three quads of a shadowed outline_box in
\* order, followed by the two quads of one whose shadow_alpha is 0
C14_Witness ==
    /\ frame = "open"
    /\ nops = 2
    /\ Len(data.quads) = 5
    /\ data.quads[1].cu = <<0, 0, 0, 255>>
    /\ data.quads[1].pos = <<3, 3, 43, 23>>
    /\ data.quads[2].pos = <<0, 0, 40, 20>>
    /\ data.quads[3].pos = <<2, 2, 38, 18>>
    /\ data.quads[4].pos = <<0, 0, 40, 20>>
    /\ data.quads[5].pos = <<2, 2, 38, 18>>

\* a box() call with zero or negative width or height
Degenerate(b) == b.x1 <= b.x0 \/ b.y1 <= b.y0

\* C15: degenerate draw calls are no-ops: box() with x1 <= x0 or y1 <= y0, and
\* text_line() with an empty string, leave the buffered vertices, the bound
\* texture and the draw calls issued as they were.
C15_DegenerateNoOp ==
    [][(\/ call'.op = "box" /\ Degenerate(call'.arg)
        \/ call'.op = "text_line" /\ call'.arg.text = <<>>)
         => UNCHANGED <<data, tex, draws>>]_vars

----------------------------------------------------------------------------
(* Claims about fonts (checked under SpecText) *)

\* C16: a code point missing from a font resolves to the font's fallback
\* record, chosen by fixed priority: the glyph of U+FFFD if the font has it,
\* else the glyph of '?', else the glyph of space, else an invisible glyph
\* whose advance is zero.
C16_FallbackPriority ==
    (t_call = "glyph" /\ t_text[1] \notin DOMAIN t_font.glyphs) =>
        LET g == t_font.glyphs
        IN  IF 65533 \in DOMAIN g THEN t_ret = g[65533]
            ELSE IF 63 \in DOMAIN g THEN t_ret = g[63]
            ELSE IF 32 \in DOMAIN g THEN t_ret = g[32]
            ELSE ~t_ret.valid /\ t_ret.adv = 0

\* C16 as the code has it: the last resort is MSDFFont._nullglyph, an
\* invisible glyph whose advance is 0.5
C16_FallbackPriorityHalfAdvance ==
    (t_call = "glyph" /\ t_text[1] \notin DOMAIN t_font.glyphs) =>
        LET g == t_font.glyphs
        IN  IF 65533 \in DOMAIN g THEN t_ret = g[65533]
            ELSE IF 63 \in DOMAIN g THEN t_ret = g[63]
            ELSE IF 32 \in DOMAIN g THEN t_ret = g[32]
            ELSE ~t_ret.valid /\ 2 * t_ret.adv = MetricScale

\* a missing code point was looked up in a loaded font that has none of
\* U+FFFD, '?' and space
C16_Witness ==
    /\ t_call = "glyph"
    /\ t_font.file = "wide"
    /\ t_text = <<10>>
    /\ ~t_ret.valid

\* the sum, over the first n code points of text, of the kerning with the
\* preceding code point (0 if the pair has none, or there is no preceding one)
\* plus the advance of the code point's glyph (the fallback's if it has none)
RECURSIVE AdvanceSum(_, _, _)
AdvanceSum(fnt, text, n) ==
    IF n = 0 THEN 0
    ELSE LET cp == text[n]
             k  == IF n > 1 /\ <<text[n - 1], cp>> \in DOMAIN fnt.kern
                   THEN fnt.kern[<<text[n - 1], cp>>] ELSE 0
             a  == IF cp \in DOMAIN fnt.glyphs THEN fnt.glyphs[cp].adv ELSE fnt.fallback.adv
         IN  AdvanceSum(fnt, text, n - 1) + k + a

\* C17: font.width(text, size) is size times the sum, over the code points of
\* text in order, of kern[(prev, cp)] (0 if absent) plus the advance of cp's
\* glyph (the fallback's advance if cp is missing); the empty string has width 0.
C17_WidthIsAdvanceSum ==
    (t_call = "width" /\ t_exc = "none") =>
        /\ t_ret = t_size * AdvanceSum(t_font, t_text, Len(t_text))
        /\ t_text = <<>> => t_ret = 0

\* the width of "a?\n" at size 3 in a font that kerns 'a','?' by -1 and has
\* no glyph for '\n': 3 * (2 + (-1 + 2) + 2), in units of 1/MetricScale
C17_Witness ==
    /\ t_call = "width"
    /\ t_font.file = "bahn"
    /\ t_text = <<97, 63, 10>>
    /\ t_size = 3
    /\ t_ret = 3 * 5 * MetricScale

----------------------------------------------------------------------------
(* Claims about text_line (checked under SpecRender) *)

\* kerning of the i-th code point of text with the one before it
KernAt(fnt, text, i) ==
    IF i > 1 /\ <<text[i - 1], text[i]>> \in DOMAIN fnt.kern
    THEN fnt.kern[<<text[i - 1], text[i]>>] ELSE 0

\* the glyph the i-th code point of text resolves to
GlyphAt(fnt, text, i) ==
    IF text[i] \in DOMAIN fnt.glyphs THEN fnt.glyphs[text[i]] ELSE fnt.fallback

\* kerning plus advance of the code points a..b of text
RECURSIVE PenMove(_, _, _, _)
PenMove(fnt, text, a, b) ==
    IF a > b THEN 0
    ELSE KernAt(fnt, text, a) + GlyphAt(fnt, text, a).adv + PenMove(fnt, text, a + 1, b)

\* C18: text_line appends exactly one quad per code point of text whose
\* resolved glyph (own or fallback) has an image, in left-to-right order; a
\* code point whose glyph has no image appends no quad but still moves the pen
\* by kerning plus advance, so later glyphs are placed as if it had been drawn.
C18_OneQuadPerVisibleGlyph ==
    [][\A c \in TextLineCalls :
         (call'.op = "text_line" /\ call'.arg = c) =>
            LET text   == c.text
                Vis(i) == GlyphAt(font, text, i).valid
                idx    == SelectSeq([i \in 1..Len(text) |-> i], Vis)
                all    == AllQuads'
                Pen(k) == all[nissued + k].pos[1] - GlyphAt(font, text, idx[k]).p[1] * c.size
            IN  /\ nissued' = nissued + Len(idx)
                /\ Len(all) = nissued'
                /\ \A k \in 1..Len(idx) :
                      LET q == all[nissued + k]
                          i == idx[k]
                      IN  /\ q.mode = 1
                          /\ q.tc = GlyphAt(font, text, i).t
                          /\ IF k = 1
                             THEN Pen(k) = c.x * MetricScale
                                           + c.size * (PenMove(font, text, 1, i - 1)
                                                       + KernAt(font, text, i))
                             ELSE Pen(k) = Pen(k - 1)
                                           + c.size * (GlyphAt(font, text, idx[k - 1]).adv
                                                       + PenMove(font, text, idx[k - 1] + 1, i - 1)
                                                       + KernAt(font, text, i))]_vars

\* "a z" drawn with a font that has an invisible space and no 'z': two glyph
\* quads, the fallback's placed after the advances of 'a' and of the space
C18_Witness ==
    /\ frame = "open"
    /\ nops = 1
    /\ Truthy(font)
    /\ Len(data.quads) = 2
    /\ data.quads[1].mode = 1 /\ data.quads[1].pos[1] = 0
    /\ data.quads[2].mode = 1 /\ data.quads[2].pos[1] = 3 * MetricScale
    /\ data.quads[2].tc = font.fallback.t

----------------------------------------------------------------------------
\* a line is a single unbreakable token: no non-alphanumeric character before
\* its last character
Unbreakable(line) == \A j \in 1..(Len(line) - 1) : IsAlnum(line[j])

\* C19: every (line, width) yielded by wrap_text(maxWidth, size, text) has
\* width <= maxWidth, unless the line is a single unbreakable token (no
\* non-alphanumeric character before its last character); this for any text,
\* texts containing '\n' included.
C19_WrappedLinesFit ==
    (t_call = "wrap" /\ t_exc = "none") =>
        \A k \in 1..Len(t_ret) :
            \/ t_ret[k][2] <= t_width * MetricScale
            \/ Unbreakable(t_ret[k][1])

\* the lines of a wrap_text result, concatenated in order
RECURSIVE ConcatLines(_, _)
ConcatLines(lines, n) ==
    IF n = 0 THEN <<>> ELSE ConcatLines(lines, n - 1) \o lines[n][1]

\* a text with all its whitespace deleted
DeleteSpace(text) == SelectSeq(text, LAMBDA cp : ~IsSpace(cp))

\* C20: wrap_text loses nothing: the yielded lines, concatenated in order and
\* with all whitespace deleted, are exactly the input text with all whitespace
\* deleted (no non-whitespace character dropped, duplicated or reordered).
C20_WrapLosesNothing ==
    (t_call = "wrap" /\ t_exc = "none") =>
        DeleteSpace(ConcatLines(t_ret, Len(t_ret))) = DeleteSpace(t_text)

\* the positions of the '\n' characters of text, in order
NewlineAt(text) == SelectSeq([i \in 1..Len(text) |-> i], LAMBDA i : text[i] = 10)

\* text.split('\n'): the segments between the newlines
SplitLines(text) ==
    LET nl == NewlineAt(text)
    IN  [k \in 1..(Len(nl) + 1) |->
            SubSeq(text, IF k = 1 THEN 1 ELSE nl[k - 1] + 1,
                         IF k = Len(nl) + 1 THEN Len(text) ELSE nl[k] - 1)]

\* the lines of a wrap_text result
LinesOf(lines) == [k \in 1..Len(lines) |-> lines[k][1]]

\* C21: '\n' is a forced break: when every newline-separated segment of the
\* text fits within maxWidth, wrap_text yields exactly one line per segment,
\* in order, each equal to the whitespace-trimmed segment (the lines
\* Renderer.text gets from text.split('\n'), trimmed).
C21_NewlineForcesBreak ==
    (t_call = "wrap" /\ t_exc = "none") =>
        LET segs == SplitLines(t_text)
        IN  (\A k \in 1..Len(segs) :
                check_width(t_font, t_size, segs[k])[2] <= t_width * MetricScale)
            => LinesOf(t_ret) = [k \in 1..Len(segs) |-> Strip(segs[k])]

\* position p of text (0 before the first character) is one where wrap_text
\* may break: an end of the text, right after a non-alphanumeric character,
\* or at a '\n'
BreakPoint(text, p) ==
    \/ p = 0
    \/ p = Len(text)
    \/ ~IsAlnum(text[p])
    \/ text[p + 1] = 10

\* the tokens of text: its maximal runs of alphanumeric characters, as
\* <<first, last>> positions
Tokens(text) ==
    { <<a, b>> \in (1..Len(text)) \X (1..Len(text)) :
        /\ a <= b
        /\ \A i \in a..b : IsAlnum(text[i])
        /\ a = 1 \/ ~IsAlnum(text[a - 1])
        /\ b = Len(text) \/ ~IsAlnum(text[b + 1]) }

\* C22: wrap_text never splits inside a token: every boundary between two
\* consecutive yielded lines is a position of the text right after a
\* non-alphanumeric character or at a '\n'; and a token with no break point
\* that exceeds maxWidth is yielded whole as a line of its own (with the
\* break character that ends it, if it has one).
C22_NoSplitInsideToken ==
    (t_call = "wrap" /\ t_exc = "none") =>
        /\ \A k \in 1..(Len(t_cuts) - 1) :
              /\ BreakPoint(t_text, t_cuts[k][2])
              /\ BreakPoint(t_text, t_cuts[k + 1][1])
        /\ \A tk \in Tokens(t_text) :
              LET tok == SubSeq(t_text, tk[1], tk[2])
              IN  Width(t_font, tok, 1) * t_size > t_width * MetricScale =>
                    \E k \in 1..Len(t_ret) :
                        \/ t_ret[k][1] = tok
                        \/ /\ tk[2] < Len(t_text)
                           /\ t_ret[k][1] = Strip(SubSeq(t_text, tk[1], tk[2] + 1))

\* C23: wrap_text yields at least one entry for every input; for the empty
\* string it yields exactly one entry, ('', 0).
C23_AtLeastOneLine ==
    (t_call = "wrap" /\ t_exc = "none") =>
        /\ Len(t_ret) >= 1
        /\ t_text = <<>> => t_ret = << <<<<>>, 0>> >>

\* wrap_text was called on the empty string with a loaded font selected
C23_Witness ==
    /\ t_call = "wrap"
    /\ t_exc = "none"
    /\ t_text = <<>>
    /\ t_ret = << <<<<>>, 0>> >>

\* C24: word-wrap is idempotent: for every line L yielded by
\* wrap_text(maxWidth, size, text) whose width is <= maxWidth,
\* wrap_text(maxWidth, size, L) yields exactly one entry, (L, width of L).
C24_WrapIdempotent ==
    (t_call = "wrap" /\ t_exc = "none") =>
        \A k \in 1..Len(t_ret) :
            t_ret[k][2] <= t_width * MetricScale =>
                WrapText(t_font, t_width, t_size, t_ret[k][1]) = <<t_ret[k]>>

\* C30: with the null font active every text operation completes without
\* raising and draws nothing; here for wrap_text, called with the null font
\* selected.
C30_NullFontNeverRaises ==
    (t_call = "wrap" /\ ~Truthy(t_font)) =>
        /\ t_exc = "none"
        /\ data = EmptyData

----------------------------------------------------------------------------
(* Claims about add_font (checked under SpecFonts) *)

\* loading the font file fails on the atlas as it is: the asset is missing or
\* malformed, or its page makes put() raise AtlasFullError
LoadFails(file) ==
    \/ ~FontAsset(file).exists
    \/ Malformed(file)
    \/ ~PutResult(Atlas, FontAsset(file).page).ok

\* C29: when font loading fails for any reason (missing or malformed asset, or
\* AtlasFullError from the atlas), add_font raises nothing, returns None, and
\* leaves the renderer's active font, default font and table of registered
\* fonts exactly as they were before the call.
C29_FailedLoadKeepsFonts ==
    [][(call'.op = "add_font" /\ LoadFails(call'.arg)) =>
          /\ call'.ret = "None"
          /\ UNCHANGED <<font, default_font, fonts>>]_vars

\* a font is loaded and selected, and then a load fails with AtlasFullError
C29_Witness ==
    /\ call.op = "add_font"
    /\ call.arg = "wide"
    /\ call.ret = "None"
    /\ ret = "AtlasFullError"
    /\ Truthy(font)

----------------------------------------------------------------------------
(* Claims about fit_text_in_box (checked under SpecFit and SpecFitLive) *)

\* C25: fit_text_in_box terminates for every text, rectangle, initial_size and
\* min_size: the shrink loop size -> max(min(size*0.9, size-1), min_size)
\* breaks after finitely many iterations, even when the text can never fit.
C25_FitTerminates ==
    (f_pc = "loop" /\ HasWidth(f_call.font)) ~> (f_pc = "done")

\* a text that never fits its rectangle was laid out at min_size, after the
\* loop had shrunk the size several times
C25_Witness ==
    /\ f_pc = "done"
    /\ f_size = f_call.min_size * SizeScale
    /\ Cardinality(f_tried) >= 3
    /\ ~FitsBox(f_call, f_size, FitLines(f_call, f_size))

\* C26: the layout returned by fit_text_in_box is non-empty and consistent
\* with wrap_text at the returned size: all entries carry the same size s, and
\* the sequence of (line, x1 - x0 of the entry) equals the sequence yielded by
\* wrap_text(rectangle width, s, text), in order.
C26_LayoutMatchesWrap ==
    f_pc = "done" =>
        /\ Len(f_ret) >= 1
        /\ \E s \in {f_ret[1].size} :
              /\ \A k \in 1..Len(f_ret) : f_ret[k].size = s
              /\ \E w \in {WrapText(f_call.font, (f_call.x1 - f_call.x0) * SizeScale,
                                     s, f_call.text)} :
                    [k \in 1..Len(f_ret) |-> <<f_ret[k].line, f_ret[k].x1 - f_ret[k].x0>>]
                    = [k \in 1..Len(w) |-> <<w[k][1], 2 * w[k][2]>>]

\* a text was laid out in several lines at a size below initial_size
C26_Witness ==
    /\ f_pc = "done"
    /\ Len(f_ret) >= 2
    /\ f_ret[1].size < f_call.initial_size * SizeScale
    /\ f_ret[1].x1 - f_ret[1].x0 > 0

\* the size that follows size t in the sequence of C27, with min_size m
\* (both in units of 1/SizeScale): 0.9*t is the smaller of 0.9*t and t-1
\* exactly when t >= 10
SizeAfter(t, m) ==
    LET n == IF t >= 10 * SizeScale THEN (9 * t) \div 10 ELSE t - SizeScale
    IN  IF n >= m THEN n ELSE m

\* C27: fit_text_in_box returns the first size of the sequence
\* s0 = initial_size, s(k+1) = max(min(0.9*s(k), s(k)-1), min_size) at which
\* either the wrapped block fits or s(k) <= min_size; hence the returned size
\* never exceeds initial_size, and whenever it is greater than min_size the
\* widest line is <= the rectangle width and the block height
\* pitch*(lines-1)+lineHeight is <= the rectangle height.
C27_FirstFittingSize ==
    f_pc = "done" =>
        LET s    == f_ret[1].size
            m    == f_call.min_size * SizeScale
            sx   == (f_call.x1 - f_call.x0) * MetricScale * SizeScale
            sy   == (f_call.y1 - f_call.y0) * MetricScale * SizeScale
            Fits(t) == \E w \in {FitLines(f_call, t)} :
                          /\ \A k \in 1..Len(w) : w[k][2] <= sx
                          /\ LineHeight(f_call.font) * t * f_call.line_spacing
                               * MetricScale * (Len(w) - 1)
                             + MaxHeight(f_call.font) * t * MetricScale <= sy
        IN  /\ f_call.initial_size * SizeScale \in f_tried \cup {s}
            /\ \A t \in f_tried :
                  /\ t > m
                  /\ ~Fits(t)
                  /\ SizeAfter(t, m) \in f_tried \cup {s}
            /\ s <= m \/ Fits(s)
            /\ s <= f_call.initial_size * SizeScale
            /\ s > m => Fits(s)

\* the text fitted at a size between min_size and initial_size, reached by
\* a 0.9 step followed by steps of 1
C27_Witness ==
    /\ f_pc = "done"
    /\ f_size > f_call.min_size * SizeScale
    /\ f_size < f_call.initial_size * SizeScale
    /\ Cardinality(f_tried) >= 3
    /\ FitsBox(f_call, f_size, FitLines(f_call, f_size))

\* C28: fit_text_in_box places lines according to alignment: with halign 0
\* every line's left edge is the rectangle's x0, with 1 every line's right
\* edge is x1, with 2 every line is centred between x0 and x1; with valign 0
\* the first line's top is y0, with 1 the last line's bottom is y1, with 2 the
\* block is centred between y0 and y1; consecutive lines are one line pitch
\* (font.line_height*size*line_spacing) apart and each is font.max_height*size
\* tall.
C28_Alignment ==
    f_pc = "done" =>
        LET n  == Len(f_ret)
            s  == f_ret[1].size
            X0 == 2 * MetricScale * SizeScale * f_call.x0
            X1 == 2 * MetricScale * SizeScale * f_call.x1
            Y0 == 2 * MetricScale * SizeScale * f_call.y0
            Y1 == 2 * MetricScale * SizeScale * f_call.y1
            pitch == 2 * MetricScale * LineHeight(f_call.font) * s * f_call.line_spacing
            tall  == 2 * MetricScale * MaxHeight(f_call.font) * s
        IN  /\ \A k \in 1..n :
                  /\ f_call.halign = 0 => f_ret[k].x0 = X0
                  /\ f_call.halign = 1 => f_ret[k].x1 = X1
                  /\ f_call.halign = 2 => f_ret[k].x0 - X0 = X1 - f_ret[k].x1
                  /\ f_ret[k].y1 - f_ret[k].y0 = tall
            /\ f_call.valign = 0 => f_ret[1].y0 = Y0
            /\ f_call.valign = 1 => f_ret[n].y1 = Y1
            /\ f_call.valign = 2 => f_ret[1].y0 - Y0 = Y1 - f_ret[n].y1
            /\ \A k \in 1..(n - 1) : f_ret[k + 1].y0 - f_ret[k].y0 = pitch

\* two lines of different widths were laid out right- and bottom-aligned
C28_Witness ==
    /\ f_pc = "done"
    /\ f_call.halign = 1
    /\ f_call.valign = 1
    /\ Len(f_ret) >= 2
    /\ f_ret[1].x0 # f_ret[2].x0
    /\ f_ret[1].x0 # 2 * MetricScale * SizeScale * f_call.x0

----------------------------------------------------------------------------
(* Claims about the atlas front and the texture uploads (checked under SpecAtlas) *)

\* the front's x for row y: the x of the last front point with yStart <= y
FrontX(f, y) == f[SetMax({i \in 1..Len(f) : f[i][2] <= y})][1]

\* the most recent put() succeeded (it pasted a bitmap into the image)
Succeeded == Len(img.pixels) > Len(prev.img.pixels)

\* the rows the front says something about, and one row below them
Rows == 0..(Max2(front[Len(front)][2], prev.front[Len(prev.front)][2]) + 1)

\* C31: after any sequence of put() calls the front is a non-empty list sorted
\* by strictly increasing yStart, and its first point has yStart 0.
C31_FrontSorted ==
    /\ front # <<>>
    /\ front[1][2] = 0
    /\ \A i \in 1..(Len(front) - 1) : front[i][2] < front[i + 1][2]

\* three bitmaps were placed and the front has four points
C31_Witness ==
    /\ Len(placed) = 3
    /\ Len(front) >= 4

\* C32: for every rectangle returned so far and every row of its vertical
\* span, the front's x for that row is at least the rectangle's right edge;
\* and the last front point has x 0.
C32_FrontBoundsSilhouette ==
    /\ \A k \in 1..Len(placed) :
          \A y \in placed[k][2]..(placed[k][4] - 1) :
              FrontX(front, y) >= placed[k][3]
    /\ front[Len(front)][1] = 0

\* rectangles were placed side by side and below each other: the front is
\* strictly to the right of one of them and exactly at the edge of another
C32_Witness ==
    /\ Len(placed) >= 2
    /\ \E k \in 1..Len(placed) : FrontX(front, placed[k][2]) > placed[k][3]
    /\ \E k \in 1..Len(placed) : placed[k][2] > 0
                                    /\ FrontX(front, placed[k][2]) = placed[k][3]

\* C33: a successful put() returning (x0,y0,x1,y1) makes the front's x equal
\* to x1 for every row in [y0,y1) and leaves the front's x of every other row
\* as it was before the call.
C33_FrontChangesOnlyInSpan ==
    Succeeded =>
        LET r == placed[Len(placed)]
        IN  \A y \in Rows :
                FrontX(front, y) = IF r[2] <= y /\ y < r[4] THEN r[3]
                                   ELSE FrontX(prev.front, y)

\* a bitmap was placed on a shelf that is taller than the bitmap, next to
\* an earlier rectangle: the front got a point at the bitmap's lower edge
\* that carries the shelf's old x
C33_Witness ==
    /\ Succeeded
    /\ LET r == placed[Len(placed)]
       IN  /\ r[1] > 0
           /\ \E i \in 1..Len(front) : front[i][2] = r[4] /\ front[i][1] > 0
           /\ \A i \in 1..Len(prev.front) : prev.front[i][2] # r[4]

\* the upload the most recent put() issued
LastUpload == uploads[Len(uploads)]

FullUpload(size) == [op |-> "TexImage2D", x |-> 0, y |-> 0, w |-> size[1], h |-> size[2]]

SubUpload(r) ==
    [op |-> "TexSubImage2D", x |-> r[1], y |-> r[2], w |-> r[3] - r[1], h |-> r[4] - r[2]]

GpuSize ==
    LET full == {k \in 1..Len(uploads) : uploads[k].op = "TexImage2D"}
    IN  IF full = {} THEN <<0, 0>>
        ELSE <<uploads[SetMax(full)].w, uploads[SetMax(full)].h>>

\* C35: a sub-rectangle upload is issued only when the most recent full upload
\* had the dimensions of the current backing image, so the updated rectangle
\* lies inside the GPU texture; tex_valid is true exactly when the GPU texture
\* size equals the backing image size.
C35_SubUploadInsideTexture ==
    /\ tex_valid <=> (GpuSize = img.size)
    /\ (uploads # <<>> /\ LastUpload.op = "TexSubImage2D") =>
          /\ GpuSize = img.size
          /\ LastUpload.x >= 0 /\ LastUpload.y >= 0
          /\ LastUpload.x + LastUpload.w <= GpuSize[1]
          /\ LastUpload.y + LastUpload.h <= GpuSize[2]

\* the image was enlarged and uploaded in full, and a sub-rectangle update
\* followed
C35_Witness ==
    /\ Len(uploads) = 3
    /\ uploads[2].op = "TexImage2D"
    /\ <<uploads[2].w, uploads[2].h>> # initsize
    /\ uploads[3].op = "TexSubImage2D"

----------------------------------------------------------------------------
(* Claims about fonts, textures and text drawing (checked under SpecDraw and
   SpecSelect) *)

\* C36: whenever a text quad (mode 1) is appended, the uTexSize uniform last
\* set by the renderer equals the current pixel dimensions of the active
\* font's atlas image, after any sequence of add_font calls (successful or
\* failed, with or without atlas growth), set_texture calls and draw calls.
C36_TexSizeMatchesAtlas ==
    [][(call'.op = "text_line" /\ nissued' > nissued) => uTexSize' = img'.size]_vars

\* C37: if add_font is called while quads are buffered, the already-buffered
\* quads are drawn with the texture that was bound when they were appended,
\* and none of them is lost.
C37_AddFontKeepsBufferedQuads ==
    [][(call'.op = "add_font" /\ data.quads # <<>>) =>
          /\ DrawnFrom(draws', 1) \o data'.quads = DrawnFrom(draws, 1) \o data.quads
          /\ \A j \in (Len(draws) + 1)..Len(draws') :
                \A k \in 1..Len(draws'[j].quads) :
                    draws'[j].quads[k].tex = draws'[j].tex]_vars

\* C38: the pen displacement text_line applies over the whole text equals
\* font.width(text, size); with align=1 the pen ends exactly at the given x,
\* with align=2 the span is centred on the given x, the start being shifted
\* left by width/align.
C38_TextLineMatchesWidth ==
    (call.op = "text_line" /\ call.exc = "none" /\ HasWidth(font)) =>
        LET c == call.arg
            w == Width(font, c.text, c.size)
            x == c.x * MetricScale
        IN  /\ call.pen[2] - call.pen[1] = w
            /\ c.align = 0 => call.pen[1] = x
            /\ c.align # 0 => c.align * (x - call.pen[1]) = w
            /\ c.align = 1 => call.pen[2] = x
            /\ c.align = 2 => x - call.pen[1] = call.pen[2] - x

\* a right-aligned text with a kerning pair and a glyph without image was
\* drawn: the pen started left of x and ended at x
C38_Witness ==
    /\ call.op = "text_line"
    /\ call.exc = "none"
    /\ font.file = "bahn"
    /\ call.arg.align = 1
    /\ call.arg.text = <<97, 63, 32>>
    /\ call.pen[1] < call.pen[2]
    /\ call.pen[2] = call.arg.x * MetricScale

\* add_font returned a name
Loaded == call'.op = "add_font" /\ call'.ret # "None"

\* what the code keeps of default_font: it starts as the null font, is
\* replaced only by the first font that loads, and while it is the null font
\* no font is registered
DefaultIsFirstLoaded ==
    /\ (default_font' # default_font) =>
          (~Truthy(default_font) /\ Loaded /\ default_font' = font')
    /\ Loaded => (Truthy(default_font') /\ font' = fonts'[call'.ret]
                    /\ font'.file = call'.arg /\ font'.name = call'.ret)
    /\ ~Truthy(default_font) => fonts = <<>>

----------------------------------------------------------------------------
(* Empty lines of wrap_text (checked under SpecText) *)

\* C40: for text containing no '\n', wrap_text yields an empty line only when
\* the whole text is empty or whitespace: no empty entry is yielded before,
\* between or after non-empty lines.
C40_NoEmptyLineInText ==
    (t_call = "wrap" /\ t_exc = "none" /\ NewlineAt(t_text) = <<>>) =>
        ((\E k \in 1..Len(t_ret) : t_ret[k][1] = <<>>) => Strip(t_text) = <<>>)

====
